---- MODULE Spec2Model ----
(***************************************************************************)
(* Model of the GIS portal scraper (src/src/agroforestry/scraping/         *)
(* gis_scraper.js): the batch loop of main, Stage 1 (findAndScrapeUrl and  *)
(* its helpers), Stage 2 (scrapeApiUrlFromDetailsPage) and the writer      *)
(* saveUrlToJson.                                                          *)
(*                                                                         *)
(* Strings are sequences of symbols (a symbol stands for a run of          *)
(* characters), so that String.includes is a real substring test.  DOM     *)
(* handles are node names; the not-found handle is NULL.                   *)
(***************************************************************************)
EXTENDS Integers, Sequences, FiniteSets, TLC

VARIABLES
    pc,         \* position of main (or of the single call in SpecFind / SpecDetails)
    file,       \* content of ./data/sources.json: definitions -> categories -> datasets
    sources,    \* sourcesToScrape, the flattened descriptors (snapshot taken at load)
    idx,        \* index of the descriptor the for-loop is at
    browser,    \* main's variable `browser`: 0 = undefined, else the id of a launched session
    open,       \* set of session ids whose browser is open
    launched,   \* number of sessions launched so far
    detailsUrl, \* result of findAndScrapeUrl for the current descriptor
    apiUrl,     \* result of scrapeApiUrlFromDetailsPage for the current descriptor
    outcome,    \* per descriptor: how its turn ended
    hist,       \* per descriptor: what main did and met in its turn
    abortAt,    \* 0, or the index whose turn raised the error that main's catch took
    inp,        \* SpecFind / SpecDetails: the scenario the call is applied to
    out         \* SpecFind / SpecDetails: what the call returned

vars == <<pc, file, sources, idx, browser, open, launched, detailsUrl, apiUrl,
          outcome, hist, abortAt, inp, out>>

-----------------------------------------------------------------------------
(* Bounds *)

\* pages of results the portal can hold beyond which no scenario is drawn
MaxPages == 3
\* iterations after which the model stops unrolling the click loop
MaxClicks == 5
\* candidate inputs enumerated in the API-resources container
MaxInputs == 2
\* dataset records in the configuration file
NumDatasets == 3

-----------------------------------------------------------------------------
(* Strings *)

NULL == "null"

\* s.includes(t): t occurs in s as a contiguous run
Includes(s, t) ==
    \E i \in 1..(Len(s) + 1) :
        /\ i + Len(t) - 1 <= Len(s)
        /\ \A k \in 1..Len(t) : s[i + k - 1] = t[k]

\* a value returned by an async function: a string, null, or a rejection
Val(s) == [kind |-> "url", val |-> s]
Null == [kind |-> "null", val |-> <<>>]
Throw(what) == [kind |-> "throw", val |-> <<what>>]

\* a test that lets null and '' through: if (r !== undefined)
\* a test that lets the empty string through: apiUrl !== null
TruthyOfAnyString(r) == r.kind = "url"

TruthyUnlessThrown(r) == r.kind # "throw"

\* JavaScript truthiness of a string-or-null result: if (detailsUrl), if (apiUrl)
Truthy(r) == r.kind = "url" /\ r.val # <<>>

-----------------------------------------------------------------------------
(* Configuration data: the locator bag of a source (tests' mockSource) *)

SEARCH_TERM == "{SEARCH_TERM}"

Selectors == [
    catalog_container   |-> <<"arcgis-hub-catalog">>,
    gallery_card        |-> [path  |-> << <<"arcgis-hub-gallery">>, <<"arcgis-hub-gallery-layout-list">> >>,
                             query |-> <<"arcgis-hub-entity-card", SEARCH_TERM>>],
    more_results_button |-> [path  |-> << <<"arcgis-hub-gallery">> >>,
                             query |-> <<"div.gallery-list-footer calcite-button">>],
    results_count       |-> [path  |-> << <<"arcgis-hub-gallery">> >>,
                             query |-> <<"p.results-count">>],
    card_url            |-> [path  |-> << <<"arcgis-hub-card">> >>,
                             query |-> <<"h3.title a">>] ]

\* selectors.gallery_card.query.replace('{SEARCH_TERM}', search_term)
ReplaceTerm(query, term) ==
    [i \in 1..Len(query) |-> IF query[i] = SEARCH_TERM THEN term ELSE query[i]]

-----------------------------------------------------------------------------
(* The DOM: dom[el] is the shadow root of element el, a function from      *)
(* selectors to the element the selector finds there.  An element outside  *)
(* DOMAIN dom has no shadow root.                                          *)

\* search terms that hold an apostrophe
Unescaped == {"Farmer's Markets"}

\* a selector is not valid CSS once such a term is spliced in unescaped, as in
\* arcgis-hub-entity-card[data-test='Farmer's Markets']
Malformed(sel) == \E i \in 1..Len(sel) : sel[i] \in Unescaped

\* querySelector throws a SyntaxError on a selector it cannot parse, and
\* evaluateHandle rejects with it; as a value in the place of a handle
SYNTAX_ERROR == "SyntaxError"

\* (el, sel) => el.shadowRoot?.querySelector(sel), then .asElement(); the
\* selector is parsed only when there is a shadow root to query
ShadowQuery(dom, el, sel) ==
    IF el \notin DOMAIN dom THEN NULL
    ELSE IF Malformed(sel) THEN SYNTAX_ERROR
    ELSE IF sel \in DOMAIN dom[el] THEN dom[el][sel] ELSE NULL

RECURSIVE WalkPath(_, _, _)
\* the for-loop of queryShadowDom: the handle reached, NULL as soon as one
\* step finds nothing (SYNTAX_ERROR as soon as one throws), and the selectors
\* evaluated, in order
WalkPath(dom, currentHandle, path) ==
    IF path = <<>> THEN [handle |-> currentHandle, evals |-> <<>>]
    ELSE LET nextHandle == ShadowQuery(dom, currentHandle, Head(path))
         IN  IF nextHandle \in {NULL, SYNTAX_ERROR}
             THEN [handle |-> nextHandle, evals |-> <<Head(path)>>]
             ELSE LET r == WalkPath(dom, nextHandle, Tail(path))
                  IN  [r EXCEPT !.evals = <<Head(path)>> \o r.evals]

RECURSIVE WalkOn(_, _, _)
\* a walk that goes on after a step found nothing
WalkOn(dom, currentHandle, path) ==
    IF path = <<>> THEN [handle |-> currentHandle, evals |-> <<>>]
    ELSE LET r == WalkOn(dom, ShadowQuery(dom, currentHandle, Head(path)), Tail(path))
         IN  [r EXCEPT !.evals = <<Head(path)>> \o r.evals]

\* a resolver without the early returns: every selector is evaluated
queryShadowDomNoStop(dom, parentHandle, path, finalSelector) ==
    LET w == WalkOn(dom, parentHandle, path)
    IN  [handle |-> ShadowQuery(dom, w.handle, finalSelector),
         evals |-> w.evals \o <<finalSelector>>]

\* a resolver that takes an empty path to mean the starting element itself
queryShadowDomSelfOnEmpty(dom, parentHandle, path, finalSelector) ==
    IF path = <<>> THEN [handle |-> parentHandle, evals |-> <<>>]
    ELSE LET w == WalkPath(dom, parentHandle, path)
         IN  IF w.handle \in {NULL, SYNTAX_ERROR} THEN w
             ELSE [handle |-> ShadowQuery(dom, w.handle, finalSelector),
                   evals |-> w.evals \o <<finalSelector>>]

\* queryShadowDom(parentHandle, path, finalSelector): the handle returned and
\* the selectors evaluated, in order
queryShadowDomRun(dom, parentHandle, path, finalSelector) ==
    LET w == WalkPath(dom, parentHandle, path)
    IN  IF w.handle \in {NULL, SYNTAX_ERROR} THEN w
        ELSE [handle |-> ShadowQuery(dom, w.handle, finalSelector),
              evals |-> w.evals \o <<finalSelector>>]

queryShadowDom(dom, parentHandle, path, finalSelector) ==
    queryShadowDomRun(dom, parentHandle, path, finalSelector).handle

-----------------------------------------------------------------------------
(* The catalog page of the portal, as one scenario sc:                      *)
(*   gotoOk, catalogOk  page.goto / waitForSelector(catalog_container) end  *)
(*                      normally (FALSE: they reject, e.g. on a timeout)    *)
(*   hosts              which shadow hosts of the gallery path exist        *)
(*   waitOk             the hydration wait of loadAllResults completes      *)
(*   readEl, text       what the read through the container handle finds    *)
(*   pageSize, total    the result set: total entries, pageSize per page    *)
(*   cardPage           the page holding the wanted card, 0 = in no page    *)
(*   link               the card's link: "none", "empty" (no href), "ok"    *)
(*   stuck, absent      the iterations of the pagination loop at which the  *)
(*                      'more results' control is not rendered although     *)
(*                      entries remain (the page is still settling), and    *)
(*                      whether this is such a moment                       *)
(*   endless            the control stays rendered however many pages are   *)
(*                      loaded                                              *)
(* hosts = "noshadow" is a gallery element that has no shadow root.         *)
(* A click on 'more results' appends the next page; the control is present  *)
(* while entries remain unloaded.                                           *)

Shadow(pairs) ==
    [s \in {p[1] : p \in pairs} |-> (CHOOSE p \in pairs : p[1] = s)[2]]

CatalogDom(sc, loaded) ==
    [el \in {"catalog", "gallery", "list", "card", "hubcard"}
             \ {x \in {"gallery"} : sc.hosts = "noshadow"} |->
        CASE el = "catalog" ->
                Shadow({p \in { <<Selectors.gallery_card.path[1], "gallery">> } :
                           sc.hosts # "nogallery"})
          [] el = "gallery" ->
                Shadow({p \in { <<Selectors.gallery_card.path[2], "list">> } :
                           sc.hosts = "all"}
                       \cup {p \in { <<Selectors.results_count.query, "count">> } :
                           sc.readEl}
                       \cup {p \in { <<Selectors.more_results_button.query, "more">> } :
                           /\ sc.endless \/ loaded * sc.pageSize < sc.total
                           /\ ~sc.absent})
          [] el = "list" ->
                Shadow({p \in { <<ReplaceTerm(Selectors.gallery_card.query, sc.term), "card">> } :
                           sc.cardPage \in 1..loaded})
          [] el = "card" ->
                Shadow({p \in { <<Selectors.card_url.path[1], "hubcard">> } :
                           sc.link # "none"})
          [] OTHER ->
                Shadow({ <<Selectors.card_url.query, "a">> })]

\* el.href of the card's link
Href(sc) == IF sc.link = "ok" THEN <<"https://portal/maps/", sc.term>> ELSE <<>>

-----------------------------------------------------------------------------
(* The results-count text: a sequence of tokens, each a number, a dash,     *)
(* the word 'of', or another word.                                          *)

Num(n) == [k |-> "num", v |-> n]
Dash == [k |-> "dash", v |-> 0]
Of == [k |-> "of", v |-> 0]
Word == [k |-> "word", v |-> 0]

\* countEl.textContent.includes('of')
HasOf(text) == \E i \in 1..Len(text) : text[i].k = "of"

\* resultText.match(/(\d+)\s*-\s*(\d+)\s*of\s*(\d+)/): the leftmost occurrence
MatchCount(text) ==
    LET at(i) == /\ text[i].k = "num"     /\ text[i + 1].k = "dash"
                 /\ text[i + 2].k = "num" /\ text[i + 3].k = "of"
                 /\ text[i + 4].k = "num"
        pos == {i \in 1..(Len(text) - 4) : at(i)}
    IN  IF pos = {} THEN [matched |-> FALSE, a |-> 0, b |-> 0, c |-> 0]
        ELSE LET i == CHOOSE j \in pos : \A q \in pos : j <= q
             IN  [matched |-> TRUE, a |-> text[i].v, b |-> text[i + 2].v,
                  c |-> text[i + 4].v]

\* one click short: Math.ceil(totalResults / resultsPerPage) - 2
ClicksNeededShort(m) ==
    IF ~m.matched \/ m.b - m.a + 1 <= 0
    THEN [inf |-> FALSE, nan |-> FALSE, n |-> 0, per |-> 0]
    ELSE [inf |-> FALSE, nan |-> FALSE, per |-> m.b - m.a + 1,
          n |-> ((m.c + (m.b - m.a + 1) - 1) \div (m.b - m.a + 1)) - 2]

\* Math.floor in the place of Math.ceil
ClicksNeededFloor(m) ==
    IF ~m.matched \/ m.b - m.a + 1 <= 0
    THEN [inf |-> FALSE, nan |-> FALSE, n |-> 0, per |-> 0]
    ELSE [inf |-> FALSE, nan |-> FALSE, per |-> m.b - m.a + 1,
          n |-> (m.c \div (m.b - m.a + 1)) - 1]

\* resultsPerPage (per) and clicksNeeded (inf, nan, n) of lines 119-122:
\* Math.ceil(totalResults / resultsPerPage) - 1 in IEEE arithmetic, where
\* x/0 is Infinity for x > 0 and NaN for x = 0
ClicksNeeded(m) ==
    IF ~m.matched THEN [inf |-> FALSE, nan |-> FALSE, n |-> 0, per |-> 0]
    ELSE LET resultsPerPage == m.b - m.a + 1
             totalResults == m.c
         IN  IF resultsPerPage = 0
             THEN [inf |-> totalResults > 0, nan |-> totalResults = 0, n |-> 0,
                   per |-> resultsPerPage]
             ELSE IF resultsPerPage > 0
             THEN [inf |-> FALSE, nan |-> FALSE, per |-> resultsPerPage,
                   n |-> ((totalResults + resultsPerPage - 1) \div resultsPerPage) - 1]
             ELSE [inf |-> FALSE, nan |-> FALSE, per |-> resultsPerPage,
                   n |-> 0 - (totalResults \div (0 - resultsPerPage)) - 1]

\* i < clicksNeeded
LessThan(i, cn) == cn.inf \/ (~cn.nan /\ i < cn.n)

\* the page as iteration i of the pagination loop finds it
AtIteration(sc, i) == [sc EXCEPT !.absent = i \in sc.stuck]

RECURSIVE ClickLoopContinue(_, _, _, _)
\* a loop that skips an iteration without the control and goes on
ClickLoopContinue(sc, i, cn, loaded) ==
    IF ~LessThan(i, cn) THEN [clicks |-> 0, loaded |-> loaded, diverged |-> FALSE]
    ELSE IF i >= MaxClicks THEN [clicks |-> 0, loaded |-> loaded, diverged |-> TRUE]
    ELSE LET moreButtonHandle ==
                 queryShadowDom(CatalogDom(AtIteration(sc, i), loaded), "catalog",
                                Selectors.more_results_button.path,
                                Selectors.more_results_button.query)
         IN  IF moreButtonHandle # NULL
             THEN LET r == ClickLoopContinue(sc, i + 1, cn, loaded + 1)
                  IN  [r EXCEPT !.clicks = r.clicks + 1]
             ELSE ClickLoopContinue(sc, i + 1, cn, loaded)

RECURSIVE ClickLoopBlind(_, _, _, _)
\* a loop that clicks clicksNeeded times where the control last was, without
\* resolving it again
ClickLoopBlind(sc, i, cn, loaded) ==
    IF ~LessThan(i, cn) THEN [clicks |-> 0, loaded |-> loaded, diverged |-> FALSE]
    ELSE IF i >= MaxClicks THEN [clicks |-> 0, loaded |-> loaded, diverged |-> TRUE]
    ELSE LET r == ClickLoopBlind(sc, i + 1, cn, loaded)
         IN  [r EXCEPT !.clicks = r.clicks + 1]

RECURSIVE ClickLoop(_, _, _, _)
\* the for-loop of loadAllResults from iteration i with `loaded` pages loaded;
\* the unrolling stops after MaxClicks iterations (diverged)
ClickLoop(sc, i, cn, loaded) ==
    IF ~LessThan(i, cn) THEN [clicks |-> 0, loaded |-> loaded, diverged |-> FALSE]
    ELSE IF i >= MaxClicks THEN [clicks |-> 0, loaded |-> loaded, diverged |-> TRUE]
    ELSE LET moreButtonHandle ==
                 queryShadowDom(CatalogDom(AtIteration(sc, i), loaded), "catalog",
                                Selectors.more_results_button.path,
                                Selectors.more_results_button.query)
         IN  IF moreButtonHandle # NULL
             THEN LET r == ClickLoop(sc, i + 1, cn, loaded + 1)
                  IN  [r EXCEPT !.clicks = r.clicks + 1]
             ELSE [clicks |-> 0, loaded |-> loaded, diverged |-> FALSE]

\* a loadAllResults that reads the count without waiting for it first
loadAllResultsUnwaited(sc, loaded) ==
    LET resultHandle ==
            queryShadowDom(CatalogDom(sc, loaded), "catalog",
                           Selectors.results_count.path, Selectors.results_count.query)
        clicksNeeded == ClicksNeeded(MatchCount(sc.text))
        r == ClickLoop(sc, 0, clicksNeeded, loaded)
    IN  IF resultHandle = NULL
        THEN [threw |-> FALSE, read |-> FALSE, clicks |-> 0, loaded |-> loaded,
              diverged |-> FALSE,
              needed |-> [inf |-> FALSE, nan |-> FALSE, n |-> 0, per |-> 0]]
        ELSE [threw |-> FALSE, read |-> TRUE, clicks |-> r.clicks,
              loaded |-> r.loaded, diverged |-> r.diverged, needed |-> clicksNeeded]

\* loadAllResults(page, catalogHandle, source) on a page with `loaded` pages
\* loaded: whether it threw, whether it read the count, resultsPerPage and
\* clicksNeeded as computed, the clicks made and the pages loaded at the end
loadAllResultsFrom(sc, loaded) ==
    LET none == [threw |-> FALSE, read |-> FALSE, clicks |-> 0, loaded |-> loaded,
                 diverged |-> FALSE,
                 needed |-> [inf |-> FALSE, nan |-> FALSE, n |-> 0, per |-> 0]]
    IN
    IF ~sc.waitOk THEN [none EXCEPT !.threw = TRUE]
    ELSE LET resultHandle ==
                 queryShadowDom(CatalogDom(sc, loaded), "catalog",
                                Selectors.results_count.path,
                                Selectors.results_count.query)
         IN  IF resultHandle = NULL THEN none
             ELSE LET clicksNeeded == ClicksNeeded(MatchCount(sc.text))
                      r == ClickLoop(sc, 0, clicksNeeded, loaded)
                  IN  [threw |-> FALSE, read |-> TRUE, clicks |-> r.clicks,
                       loaded |-> r.loaded, diverged |-> r.diverged,
                       needed |-> clicksNeeded]

\* loadAllResults as findAndScrapeUrl calls it: after the first page loaded
loadAllResults(sc) == loadAllResultsFrom(sc, 1)

\* findCardOnPage(catalogHandle, source) with `loaded` pages loaded
findCardOnPage(sc, loaded) ==
    LET finalQuery == ReplaceTerm(Selectors.gallery_card.query, sc.term)
    IN  queryShadowDom(CatalogDom(sc, loaded), "catalog",
                       Selectors.gallery_card.path, finalQuery)

\* extractUrlFromCard(cardHandle, source)
extractUrlFromCard(sc, loaded, cardHandle) ==
    LET linkHandle == queryShadowDom(CatalogDom(sc, loaded), cardHandle,
                                     Selectors.card_url.path, Selectors.card_url.query)
    IN  IF linkHandle = NULL THEN Null ELSE Val(Href(sc))

\* a Stage 1 that paginates before it looks, and paginates again on a miss
findAndScrapeUrlEager(sc) ==
    LET lr == loadAllResults(sc)
        cardHandle == findCardOnPage(sc, lr.loaded)
        calls == <<"goto", "waitForSelector", "loadAllResults", "findCardOnPage">>
    IN  IF ~sc.gotoOk \/ ~sc.catalogOk \/ lr.threw
        THEN [res |-> Throw("goto"), calls |-> <<"goto">>, clicks |-> 0,
              paginated |-> FALSE, second |-> FALSE]
        ELSE IF cardHandle # NULL
        THEN [res |-> extractUrlFromCard(sc, lr.loaded, cardHandle),
              calls |-> calls \o <<"extractUrlFromCard">>,
              clicks |-> lr.clicks, paginated |-> TRUE, second |-> FALSE]
        ELSE [res |-> Null,
              calls |-> calls \o <<"loadAllResults", "findCardOnPage", "findCardOnPage">>,
              clicks |-> lr.clicks, paginated |-> TRUE, second |-> TRUE]

\* findAndScrapeUrl(page, source): the result, the calls made in order, and
\* what the pagination pass did
findAndScrapeUrl(sc) ==
    LET none == [clicks |-> 0, paginated |-> FALSE, second |-> FALSE]
    IN
    IF ~sc.gotoOk
    THEN [res |-> Throw("goto"), calls |-> <<"goto">>] @@ none
    ELSE IF ~sc.catalogOk
    THEN [res |-> Throw("waitForSelector"), calls |-> <<"goto", "waitForSelector">>] @@ none
    ELSE
    LET first == findCardOnPage(sc, 1)
        pre == <<"goto", "waitForSelector", "findCardOnPage">>
    IN  IF first = SYNTAX_ERROR
        THEN [res |-> Throw("querySelector"), calls |-> pre] @@ none
        ELSE IF first # NULL
        THEN [res |-> extractUrlFromCard(sc, 1, first),
              calls |-> pre \o <<"extractUrlFromCard">>] @@ none
        ELSE
        LET lr == loadAllResults(sc)
        IN  IF lr.threw
            THEN [res |-> Throw("waitForFunction"), calls |-> pre \o <<"loadAllResults">>,
                  clicks |-> 0, paginated |-> TRUE, second |-> FALSE]
            ELSE
            LET cardHandle == findCardOnPage(sc, lr.loaded)
                calls2 == pre \o <<"loadAllResults", "findCardOnPage">>
            IN  IF cardHandle = SYNTAX_ERROR
                THEN [res |-> Throw("querySelector"), calls |-> calls2,
                      clicks |-> lr.clicks, paginated |-> TRUE, second |-> TRUE]
                ELSE IF cardHandle # NULL
                THEN [res |-> extractUrlFromCard(sc, lr.loaded, cardHandle),
                      calls |-> calls2 \o <<"extractUrlFromCard">>,
                      clicks |-> lr.clicks, paginated |-> TRUE, second |-> TRUE]
                ELSE [res |-> Null, calls |-> calls2,
                      clicks |-> lr.clicks, paginated |-> TRUE, second |-> FALSE]

-----------------------------------------------------------------------------
(* The details page, as one scenario d:                                     *)
(*   gotoOk       page.goto(detailsUrl) ends within its 60 s timeout        *)
(*   explore      the landed URL contains '/explore'                        *)
(*   infoBtn      the informational toggle: "missing", "active", "inactive" *)
(*   detailsLink  the 'view full details' control resolves                  *)
(*   primary      how far the primary strategy gets: "timeout" (the API     *)
(*                resources control does not appear within 15 s),           *)
(*                "clickThrows", "noContainer", "evalThrows" (reading an    *)
(*                input rejects), "ok"                                      *)
(*   inputs       the raw el.value of each candidate input, in order        *)
(*   token        pageSelectors.api_input_value_match                       *)
(*   fallback     the data-source link: "absent", "present", "empty" (no    *)
(*                href), "queryThrows" (page.$ rejects), "hrefThrows"       *)
(*                (reading el.href rejects)                                 *)

VALUE_NOT_FOUND == <<"VALUE", "NOT", "FOUND">>

FallbackHref == <<"https://svc/", "FeatureServer">>

\* el => ({label: ..., value: el.value || 'VALUE NOT FOUND'}) for every input
FoundData(inputs) ==
    [i \in 1..Len(inputs) |-> IF inputs[i] = <<>> THEN VALUE_NOT_FOUND ELSE inputs[i]]

\* the last match instead of the first
FindLast(foundData, token) ==
    LET hits == {i \in 1..Len(foundData) : Includes(foundData[i], token)}
    IN  IF hits = {} THEN 0 ELSE CHOOSE i \in hits : \A j \in hits : i >= j

\* the first candidate when none matches: foundData.find(...) || foundData[0]
FindFirstOrAny(foundData, token) ==
    LET hits == {i \in 1..Len(foundData) : Includes(foundData[i], token)}
    IN  IF hits = {} THEN (IF Len(foundData) > 0 THEN 1 ELSE 0)
        ELSE CHOOSE i \in hits : \A j \in hits : i <= j

\* foundData.find(data => data.value.includes(token)): the index, 0 for undefined
FindFirst(foundData, token) ==
    LET hits == {i \in 1..Len(foundData) : Includes(foundData[i], token)}
    IN  IF hits = {} THEN 0 ELSE CHOOSE i \in hits : \A j \in hits : i <= j

\* an explore workflow that activates the toggle whatever its state
ExploreWorkflowAlwaysClicks(d) ==
    IF ~d.explore THEN [ok |-> TRUE, calls |-> <<>>]
    ELSE IF d.infoBtn = "missing"
    THEN [ok |-> FALSE, calls |-> <<"waitInfoButton">>]
    ELSE IF ~d.detailsLink
    THEN [ok |-> FALSE, calls |-> <<"waitInfoButton", "clickInfoButton", "waitDetailsLink">>]
    ELSE [ok |-> TRUE,
          calls |-> <<"waitInfoButton", "clickInfoButton", "waitDetailsLink",
                      "clickDetailsLink">>]

\* an explore workflow whose failures do not stop the extraction
ExploreWorkflowCarriesOn(d) ==
    IF ~d.explore THEN [ok |-> TRUE, calls |-> <<>>]
    ELSE IF d.infoBtn = "missing"
    THEN [ok |-> TRUE, calls |-> <<"waitInfoButton">>]
    ELSE [ok |-> TRUE, calls |-> <<"waitInfoButton", "waitDetailsLink">>]

\* lines 188-196: the '/explore' side-panel workflow; ok = it did not throw
ExploreWorkflow(d) ==
    IF ~d.explore THEN [ok |-> TRUE, calls |-> <<>>]
    ELSE IF d.infoBtn = "missing"
    THEN [ok |-> FALSE, calls |-> <<"waitInfoButton">>]
    ELSE LET toggled == IF d.infoBtn = "active" THEN <<"waitInfoButton">>
                        ELSE <<"waitInfoButton", "clickInfoButton">>
         IN  IF ~d.detailsLink
             THEN [ok |-> FALSE, calls |-> toggled \o <<"waitDetailsLink">>]
             ELSE [ok |-> TRUE,
                   calls |-> toggled \o <<"waitDetailsLink", "clickDetailsLink">>]

\* lines 199-228: the primary strategy; res.kind = "url" when it returns a value,
\* "null" when it falls through to the fallback (also after its own catch)
PrimaryStrategy(d) ==
    IF d.primary = "timeout"
    THEN [res |-> Null, calls |-> <<"waitApiButton">>]
    ELSE IF d.primary = "clickThrows"
    THEN [res |-> Null, calls |-> <<"waitApiButton", "clickApiButton">>]
    ELSE IF d.primary = "noContainer"
    THEN [res |-> Null, calls |-> <<"waitApiButton", "clickApiButton", "waitContainer">>]
    ELSE LET opened == <<"waitApiButton", "clickApiButton", "waitContainer", "enumerate">>
         IN  IF d.primary = "evalThrows" /\ d.inputs # <<>>
             THEN [res |-> Null, calls |-> opened \o <<"evaluateInput">>]
             ELSE LET foundData == FoundData(d.inputs)
                      geoJsonData == FindFirst(foundData, d.token)
                      reads == [i \in 1..Len(d.inputs) |-> "evaluateInput"]
                  IN  IF geoJsonData # 0
                      THEN [res |-> Val(foundData[geoJsonData]), calls |-> opened \o reads]
                      ELSE [res |-> Null, calls |-> opened \o reads]

\* a details scrape that gives up after the primary strategy
FallbackSkipped(d) == [res |-> Null, calls |-> <<>>]

\* lines 231-235: the fallback strategy.  `return dataSourceLink.evaluate(...)`
\* returns the promise without awaiting it, so its rejection is not taken by
\* the enclosing catch: it becomes the rejection of the whole call.
FallbackStrategy(d) ==
    CASE d.fallback = "queryThrows" -> [res |-> Null, calls |-> <<"queryFallback">>]
      [] d.fallback = "absent"      -> [res |-> Null, calls |-> <<"queryFallback">>]
      [] d.fallback = "present"     -> [res |-> Val(FallbackHref),
                                        calls |-> <<"queryFallback", "readHref">>]
      [] d.fallback = "empty"       -> [res |-> Val(<<>>),
                                        calls |-> <<"queryFallback", "readHref">>]
      [] OTHER                      -> [res |-> Throw("href"),
                                        calls |-> <<"queryFallback", "readHref">>]

\* scrapeApiUrlFromDetailsPage(page, detailsUrl, source): the result and the
\* automation calls made, in order
scrapeApiUrlFromDetailsPage(d) ==
    IF ~d.gotoOk THEN [res |-> Throw("goto"), calls |-> <<"goto">>]
    ELSE
    LET ex == ExploreWorkflow(d)
        nav == <<"goto", "url">>
    IN  IF ~ex.ok THEN [res |-> Null, calls |-> nav \o ex.calls]
        ELSE
        LET pr == PrimaryStrategy(d)
        IN  IF pr.res.kind = "url"
            THEN [res |-> pr.res, calls |-> nav \o ex.calls \o pr.calls]
            ELSE LET fb == FallbackStrategy(d)
                 IN  [res |-> fb.res, calls |-> nav \o ex.calls \o pr.calls \o fb.calls]

-----------------------------------------------------------------------------
(* The configuration file ./data/sources.json.  file.valid is whether the   *)
(* text parses; file.config is the parsed structure.                        *)

RECURSIVE Concat(_)
\* the pushes of nested for-loops, in order
Concat(seqs) == IF seqs = <<>> THEN <<>> ELSE Head(seqs) \o Concat(Tail(seqs))

\* {} and the text `${undefined}`
EmptyObject == [x \in {} |-> 0]
UNDEFINED == <<"undefined">>

\* processSourceDefinitions(config).  An object spread {...a, k: v, ...b} is
\* a merge in which the later source wins: b @@ [k |-> v] @@ a.
processSourceDefinitions(config) ==
    LET baseConfig == IF "base_config" \in DOMAIN config THEN config.base_config
                      ELSE EmptyObject
        base_search_url == IF "base_search_url" \in DOMAIN baseConfig
                           THEN baseConfig.base_search_url ELSE UNDEFINED
        flat(definition, category) ==
            [k \in 1..Len(category.datasets) |->
                [origin_url |-> base_search_url \o category.category]
                @@ category.datasets[k]
                @@ [name |-> definition.name, category |-> category.category]
                @@ baseConfig]
        perDefinition(definition) ==
            Concat([c \in 1..Len(definition.categories) |->
                        flat(definition, definition.categories[c])])
    IN  Concat([i \in 1..Len(config.source_definitions) |->
                    perDefinition(config.source_definitions[i])])

\* positions <<definition, category, dataset>> of the records with the id
PositionsOf(config, datasetId) ==
    UNION {UNION {{<<i, c, k>> :
                     k \in {n \in 1..Len(config.source_definitions[i].categories[c].datasets) :
                               config.source_definitions[i].categories[c].datasets[n].id = datasetId}} :
                  c \in 1..Len(config.source_definitions[i].categories)} :
           i \in 1..Len(config.source_definitions)}

Before(p, q) ==
    \/ p[1] < q[1]
    \/ p[1] = q[1] /\ p[2] < q[2]
    \/ p[1] = q[1] /\ p[2] = q[2] /\ p[3] <= q[3]

\* dataset.scraped_url = apiUrl; dataset.imported = true (the keys are added
\* when the record has none)
Updated(dataset, url) == [scraped_url |-> url, imported |-> TRUE] @@ dataset

\* a writer that updates every record with the id
saveUrlToJsonAll(f, datasetId, url, io) ==
    IF io = "readFail" \/ ~f.valid
    THEN [file |-> f, wrote |-> FALSE, log |-> "error", threw |-> FALSE]
    ELSE LET config == f.config
             found == PositionsOf(config, datasetId)
             updated ==
                 [config EXCEPT !.source_definitions =
                     [i \in DOMAIN @ |-> [@[i] EXCEPT !.categories =
                         [c \in DOMAIN @ |-> [@[c] EXCEPT !.datasets =
                             [k \in DOMAIN @ |->
                                 IF <<i, c, k>> \in found THEN Updated(@[k], url)
                                 ELSE @[k]]]]]]]
         IN  IF found = {}
             THEN [file |-> f, wrote |-> FALSE, log |-> "warn", threw |-> FALSE]
             ELSE IF io = "writeFail"
             THEN [file |-> f, wrote |-> FALSE, log |-> "error", threw |-> FALSE]
             ELSE [file |-> [valid |-> TRUE, config |-> updated], wrote |-> TRUE,
                   log |-> "ok", threw |-> FALSE]

\* a writer that writes the file back whether or not it updated a record
saveUrlToJsonAlways(f, datasetId, url, io) ==
    IF io = "readFail" \/ ~f.valid
    THEN [file |-> f, wrote |-> FALSE, log |-> "error", threw |-> FALSE]
    ELSE [file |-> f, wrote |-> io = "ok", log |-> "warn", threw |-> FALSE]

\* a writer without its try/catch
saveUrlToJsonUnguarded(f, datasetId, url, io) ==
    IF io # "ok" \/ ~f.valid
    THEN [file |-> f, wrote |-> FALSE, log |-> "error", threw |-> TRUE]
    ELSE [file |-> f, wrote |-> FALSE, log |-> "warn", threw |-> FALSE]

\* saveUrlToJson(filePath, datasetId, apiUrl) on the file content f; io is
\* what the file system does: "ok", "readFail", "writeFail".  The first
\* record with the id, in file order, is the one updated.  The result: the
\* file afterwards, whether writeFile completed, what was logged ("ok",
\* "warn", "error"), and whether the call threw.
saveUrlToJsonRun(f, datasetId, url, io) ==
    IF io = "readFail" \/ ~f.valid
    THEN [file |-> f, wrote |-> FALSE, log |-> "error", threw |-> FALSE]
    ELSE LET config == f.config
             found == PositionsOf(config, datasetId)
         IN  IF found = {}
             THEN [file |-> f, wrote |-> FALSE, log |-> "warn", threw |-> FALSE]
             ELSE LET p == CHOOSE q \in found : \A r \in found : Before(q, r)
                      updated ==
                          [config EXCEPT
                              !.source_definitions[p[1]].categories[p[2]].datasets[p[3]] =
                                  Updated(@, url)]
                  IN  IF io = "writeFail"
                      THEN [file |-> f, wrote |-> FALSE, log |-> "error", threw |-> FALSE]
                      ELSE [file |-> [valid |-> TRUE, config |-> updated],
                            wrote |-> TRUE, log |-> "ok", threw |-> FALSE]

saveUrlToJson(f, datasetId, url, io) == saveUrlToJsonRun(f, datasetId, url, io).file

\* the dataset records of a file, in file order
Records(f) ==
    LET config == f.config
    IN  Concat([i \in 1..Len(config.source_definitions) |->
            Concat([c \in 1..Len(config.source_definitions[i].categories) |->
                       config.source_definitions[i].categories[c].datasets])])

-----------------------------------------------------------------------------
(* Scenarios *)

Min(a, b) == IF a <= b THEN a ELSE b

\* the count text the portal shows for a result set: "1 - 12 of 26 results"
PortalText(pageSize, total) ==
    IF total = 0 THEN <<Num(0), Word>>
    ELSE <<Num(1), Dash, Num(Min(pageSize, total)), Of, Num(total), Word>>

\* a hydrated count text that is not of the form '<a> - <b> of <c>'
OtherText == <<Word, Of, Word>>

GeoJson == <<"geojson">>
RawValues == {<<>>, <<"https://svc/", "geojson">>, <<"https://svc/", "csv">>,
              <<"https://other/", "geojson">>}

SeqsUpTo(S, n) == UNION {[1..m -> S] : m \in 0..n}

\* every catalog page SpecFind applies findAndScrapeUrl to
FindScenarios ==
    {sc \in [gotoOk : BOOLEAN, catalogOk : BOOLEAN,
             hosts : {"all", "nolist", "nogallery"},
             waitOk : BOOLEAN, readEl : BOOLEAN, matching : BOOLEAN,
             pageSize : 1..2, total : 0..(2 * MaxPages),
             cardPage : 0..MaxPages, link : {"none", "empty", "ok"},
             term : {"Dams"} \cup Unescaped] :
        /\ sc.total <= sc.pageSize * MaxPages
        /\ sc.cardPage * sc.pageSize < sc.total + sc.pageSize}

WithText(sc) ==
    [gotoOk |-> sc.gotoOk, catalogOk |-> sc.catalogOk, hosts |-> sc.hosts,
     waitOk |-> sc.waitOk, readEl |-> sc.readEl,
     text |-> IF sc.matching THEN PortalText(sc.pageSize, sc.total) ELSE OtherText,
     pageSize |-> sc.pageSize, total |-> sc.total, cardPage |-> sc.cardPage,
     link |-> sc.link, term |-> sc.term, stuck |-> {}, absent |-> FALSE,
     endless |-> FALSE]

\* the catalog pages a descriptor of the batch run may meet; a field that
\* the page never gets to show (after a failed navigation, say) is fixed
MainCatalogScenarios(term) ==
    {sc \in [gotoOk : BOOLEAN, catalogOk : BOOLEAN, hosts : {"all", "nolist"},
             waitOk : BOOLEAN, readEl : BOOLEAN, matching : BOOLEAN,
             pageSize : {2}, total : {2 * MaxPages},
             cardPage : 0..MaxPages, link : {"none", "empty", "ok"},
             term : {term}] :
        /\ ~sc.gotoOk => sc.catalogOk
        /\ ~(sc.gotoOk /\ sc.catalogOk) =>
              (sc.hosts = "all" /\ sc.cardPage = 0 /\ sc.waitOk)
        /\ (sc.cardPage = 0 \/ sc.hosts # "all") => sc.link = "ok"
        /\ (sc.cardPage = 1 /\ sc.hosts = "all") => sc.waitOk
        /\ ~sc.waitOk => sc.readEl
        /\ ~(sc.waitOk /\ sc.readEl) => sc.matching}

\* every details page SpecDetails applies scrapeApiUrlFromDetailsPage to
DetailScenarios(inputSet, tokens) ==
    {d \in [gotoOk : BOOLEAN, explore : BOOLEAN,
            infoBtn : {"missing", "active", "inactive"}, detailsLink : BOOLEAN,
            primary : {"timeout", "clickThrows", "noContainer", "evalThrows", "ok"},
            inputs : inputSet, token : tokens,
            fallback : {"absent", "present", "empty", "queryThrows", "hrefThrows"}] :
        ~d.explore => (d.infoBtn = "active" /\ d.detailsLink)}

\* the details pages a descriptor of the batch run may meet; a field that
\* the page never gets to show is fixed
MainDetailScenarios ==
    {d \in DetailScenarios({<<>>, << <<>> >>, << <<"https://svc/", "geojson">> >>,
                            << <<"https://svc/", "csv">>, <<"https://other/", "geojson">> >>},
                           {GeoJson}) :
        /\ ~d.gotoOk => (~d.explore /\ d.primary = "ok")
        /\ (d.explore /\ d.infoBtn = "missing") => d.detailsLink
        /\ (~d.gotoOk \/ (d.explore /\ (d.infoBtn = "missing" \/ ~d.detailsLink))) =>
              (d.primary = "ok" /\ d.fallback = "absent")
        /\ d.primary \in {"timeout", "clickThrows", "noContainer"} => d.inputs = <<>>}

\* Stage 1 of the end-to-end scenario: the card is in the result set, on a
\* later page than the first, and nothing on the way fails
PagedScenario(sc) ==
    /\ sc.gotoOk /\ sc.catalogOk /\ sc.waitOk /\ sc.readEl /\ sc.matching
    /\ sc.hosts = "all" /\ sc.cardPage >= 2 /\ sc.link = "ok"

\* Stage 2 of the end-to-end scenario: the primary panel opens and one of its
\* inputs holds a value containing the match token
PanelScenario(d) ==
    /\ d.gotoOk /\ d.primary = "ok"
    /\ d.explore => (d.infoBtn # "missing" /\ d.detailsLink)
    /\ \E i \in 1..Len(d.inputs) : d.inputs[i] # <<>> /\ Includes(d.inputs[i], d.token)

-----------------------------------------------------------------------------
(* The batch run: main *)

Dataset(k, imp) ==
    [id |-> k, search_term |-> ToString(k), imported |-> imp,
     scraped_url |-> IF imp THEN <<"https://old/", ToString(k)>> ELSE <<>>]

\* a configuration of NumDatasets records with unique ids 1..NumDatasets: the
\* first `split` in category "a", the rest in category "b" of the same
\* definition (twoDefs = FALSE) or of a second definition
InitialConfig(split, twoDefs, imp) ==
    LET catA == [category |-> <<"a">>,
                 datasets |-> [k \in 1..split |-> Dataset(k, imp[k])]]
        catB == [category |-> <<"b">>,
                 datasets |-> [k \in 1..(NumDatasets - split) |->
                                  Dataset(split + k, imp[split + k])]]
    IN  [base_config |-> [base_search_url |-> <<"http://x/">>],
         source_definitions |->
            IF twoDefs
            THEN << [name |-> "A", categories |-> <<catA>>],
                    [name |-> "B", categories |-> <<catB>>] >>
            ELSE << [name |-> "A", categories |-> <<catA, catB>>] >>]

NoInput == [none |-> TRUE]
NoOutput == [res |-> Null, calls |-> <<>>]

\* sessions acquired, navigations to the origin (navs1) and to the details
\* URL (navs2), calls of the writer, the two stages' results, and whether the
\* turn so far is the end-to-end scenario (PagedScenario, PanelScenario, and a
\* file system that works)
NoHist == [sessions |-> 0, navs1 |-> 0, navs2 |-> 0, saves |-> 0,
           s1 |-> "none", s2 |-> "none", e2e |-> FALSE]

Count(calls, what) == Cardinality({i \in 1..Len(calls) : calls[i] = what})

\* what a history keeps of a result: "url" (a non-empty string), "null" (null
\* or the empty string: not-found to the caller), or the call that threw
Kind(r) == IF r.kind = "throw" THEN r.val[1]
           ELSE IF r.kind = "url" /\ r.val # <<>> THEN "url" ELSE "null"

Init ==
    /\ pc = "load"
    /\ \E split \in {1, NumDatasets - 1}, twoDefs \in BOOLEAN,
          imp \in [1..NumDatasets -> BOOLEAN] :
          file = [valid |-> TRUE, config |-> InitialConfig(split, twoDefs, imp)]
    /\ sources = <<>>
    /\ idx = 0
    /\ browser = 0
    /\ open = {}
    /\ launched = 0
    /\ detailsUrl = Null
    /\ apiUrl = Null
    /\ outcome = [k \in 1..NumDatasets |-> "none"]
    /\ hist = [k \in 1..NumDatasets |-> NoHist]
    /\ abortAt = 0
    /\ inp = NoInput
    /\ out = NoOutput

\* lines 281-284: read and parse the file (readOk = FALSE: it cannot be read
\* or parsed), flatten it
Load ==
    /\ pc = "load"
    /\ \E readOk \in BOOLEAN :
          IF readOk
          THEN /\ sources' = processSourceDefinitions(file.config)
               /\ idx' = 1
               /\ pc' = "loop"
               /\ UNCHANGED abortAt
          ELSE /\ pc' = "catch"
               /\ abortAt' = -1
               /\ UNCHANGED <<sources, idx>>
    /\ UNCHANGED <<file, browser, open, launched, detailsUrl, apiUrl, outcome,
                   hist, inp, out>>

\* line 286: the for-loop is past the last descriptor
LoopExit ==
    /\ pc = "loop"
    /\ idx > Len(sources)
    /\ pc' = "finally"
    /\ UNCHANGED <<file, sources, idx, browser, open, launched, detailsUrl,
                   apiUrl, outcome, hist, abortAt, inp, out>>

\* the skip rule left out
IsImportedNever(source) == FALSE

\* line 287: if (source.imported)
IsImported(source) == source.imported

\* lines 287-290: if (source.imported) continue
SkipImported ==
    /\ pc = "loop"
    /\ idx <= Len(sources)
    /\ IsImported(sources[idx])
    /\ outcome' = [outcome EXCEPT ![idx] = "skipped"]
    /\ idx' = idx + 1
    /\ UNCHANGED <<pc, file, sources, browser, open, launched, detailsUrl,
                   apiUrl, hist, abortAt, inp, out>>

\* line 293: browser = await puppeteer.launch(...)
Launch ==
    /\ pc = "loop"
    /\ idx <= Len(sources)
    /\ ~IsImported(sources[idx])
    /\ \E ok \in BOOLEAN :
          IF ok
          THEN /\ launched' = launched + 1
               /\ browser' = launched + 1
               /\ open' = open \cup {launched + 1}
               /\ hist' = [hist EXCEPT ![idx].sessions = @ + 1]
               /\ pc' = "newPage"
               /\ UNCHANGED <<abortAt, outcome>>
          ELSE /\ pc' = "catch"
               /\ abortAt' = idx
               /\ outcome' = [outcome EXCEPT ![idx] = "nosession"]
               /\ UNCHANGED <<launched, browser, open, hist>>
    /\ UNCHANGED <<file, sources, idx, detailsUrl, apiUrl, inp, out>>

\* line 294: const page = await browser.newPage()
NewPage ==
    /\ pc = "newPage"
    /\ \E ok \in BOOLEAN :
          IF ok
          THEN /\ pc' = "stage1"
               /\ UNCHANGED <<abortAt, outcome>>
          ELSE /\ pc' = "catch"
               /\ abortAt' = idx
               /\ outcome' = [outcome EXCEPT ![idx] = "nosession"]
    /\ UNCHANGED <<file, sources, idx, browser, open, launched, detailsUrl,
                   apiUrl, hist, inp, out>>

\* a Stage 1 failure after which Stage 2 runs all the same
Stage1FailedGoesOn ==
    /\ pc' = "stage2"
    /\ UNCHANGED outcome

\* a Stage 1 failure that leaves the loop
Stage1FailedBreaks ==
    /\ pc' = "finally"
    /\ outcome' = [outcome EXCEPT ![idx] = "stage1"]

\* lines 309-311: Stage 1 gave no details URL: log, then on to line 313
Stage1Failed ==
    /\ pc' = "close"
    /\ outcome' = [outcome EXCEPT ![idx] = "stage1"]

\* lines 306-308: Stage 2 gave no API URL: log, then on to line 313
Stage2Failed ==
    /\ pc' = "close"
    /\ outcome' = [outcome EXCEPT ![idx] = "stage2"]

\* lines 296-298, 309-311: Stage 1 and the test of its result
Stage1 ==
    /\ pc = "stage1"
    /\ \E sc \in MainCatalogScenarios(sources[idx].search_term) :
          LET r == findAndScrapeUrl(WithText(sc))
          IN  /\ hist' = [hist EXCEPT ![idx].navs1 = @ + Count(r.calls, "goto"),
                                      ![idx].s1 = Kind(r.res),
                                      ![idx].e2e = PagedScenario(sc)]
              /\ IF r.res.kind = "throw"
                 THEN /\ pc' = "catch"
                      /\ abortAt' = idx
                      /\ outcome' = [outcome EXCEPT ![idx] = "error"]
                      /\ UNCHANGED detailsUrl
                 ELSE /\ detailsUrl' = r.res
                      /\ UNCHANGED abortAt
                      /\ IF Truthy(r.res)
                         THEN pc' = "stage2" /\ UNCHANGED outcome
                         ELSE Stage1Failed
    /\ UNCHANGED <<file, sources, idx, browser, open, launched, apiUrl, inp, out>>

\* lines 300-308: Stage 2 and the test of its result
Stage2 ==
    /\ pc = "stage2"
    /\ \E d \in MainDetailScenarios :
          LET r == scrapeApiUrlFromDetailsPage(d)
          IN  /\ hist' = [hist EXCEPT ![idx].navs2 = @ + Count(r.calls, "goto"),
                                      ![idx].s2 = Kind(r.res),
                                      ![idx].e2e = @ /\ PanelScenario(d)]
              /\ IF r.res.kind = "throw"
                 THEN /\ pc' = "catch"
                      /\ abortAt' = idx
                      /\ outcome' = [outcome EXCEPT ![idx] = "error"]
                      /\ UNCHANGED apiUrl
                 ELSE /\ apiUrl' = r.res
                      /\ UNCHANGED abortAt
                      /\ IF Truthy(r.res)
                         THEN pc' = "save" /\ UNCHANGED outcome
                         ELSE Stage2Failed
    /\ UNCHANGED <<file, sources, idx, browser, open, launched, detailsUrl, inp, out>>

\* line 305: await saveUrlToJson(jsonPath, source.id, apiUrl)
Save ==
    /\ pc = "save"
    /\ \E io \in {"ok", "readFail", "writeFail"} :
          LET r == saveUrlToJsonRun(file, sources[idx].id, apiUrl.val, io)
          IN  /\ file' = r.file
              /\ hist' = [hist EXCEPT ![idx].saves = @ + 1,
                                      ![idx].e2e = @ /\ io = "ok"]
              /\ pc' = IF r.threw THEN "catch" ELSE "close"
              /\ abortAt' = IF r.threw THEN idx ELSE abortAt
    /\ outcome' = [outcome EXCEPT ![idx] = "saved"]
    /\ UNCHANGED <<sources, idx, browser, open, launched, detailsUrl, apiUrl,
                   inp, out>>

\* lines 313-315: await browser.close(), on to the next descriptor; the
\* iteration's constants detailsUrl and apiUrl go out of scope
\* a turn that ends without closing its session
CloseSessionLeavesOpen ==
    /\ pc = "close"
    /\ idx' = idx + 1
    /\ pc' = "loop"
    /\ detailsUrl' = Null
    /\ apiUrl' = Null
    /\ UNCHANGED <<file, sources, browser, open, launched, outcome, hist, abortAt,
                   inp, out>>

CloseSession ==
    /\ pc = "close"
    /\ open' = open \ {browser}
    /\ idx' = idx + 1
    /\ pc' = "loop"
    /\ detailsUrl' = Null
    /\ apiUrl' = Null
    /\ UNCHANGED <<file, sources, browser, launched, outcome, hist, abortAt, inp, out>>

\* lines 317-318: catch (error) { console.error(...) }
Catch ==
    /\ pc = "catch"
    /\ pc' = "finally"
    /\ UNCHANGED <<file, sources, idx, browser, open, launched, detailsUrl,
                   apiUrl, outcome, hist, abortAt, inp, out>>

\* a finally that closes nothing
FinallyNoClose ==
    /\ pc = "finally"
    /\ pc' = "done"
    /\ UNCHANGED <<file, sources, idx, browser, open, launched, detailsUrl, apiUrl,
                   outcome, hist, abortAt, inp, out>>

\* lines 319-323: finally { if (browser?.process() != null) await browser.close() }
\* a launched browser keeps its process object, also after it was closed
Finally ==
    /\ pc = "finally"
    /\ open' = IF browser # 0 THEN open \ {browser} ELSE open
    /\ pc' = "done"
    /\ UNCHANGED <<file, sources, idx, browser, launched, detailsUrl, apiUrl,
                   outcome, hist, abortAt, inp, out>>

Next ==
    \/ Load \/ LoopExit \/ SkipImported \/ Launch \/ NewPage \/ Stage1
    \/ Stage2 \/ Save \/ CloseSession \/ Catch \/ Finally

Spec == Init /\ [][Next]_vars

-----------------------------------------------------------------------------
(* One call of findAndScrapeUrl on every catalog page *)

Idle ==
    /\ file = [valid |-> TRUE, config |-> InitialConfig(1, FALSE, [k \in 1..NumDatasets |-> FALSE])]
    /\ sources = <<>>
    /\ idx = 0
    /\ browser = 0
    /\ open = {}
    /\ launched = 0
    /\ detailsUrl = Null
    /\ apiUrl = Null
    /\ outcome = [k \in 1..NumDatasets |-> "none"]
    /\ hist = [k \in 1..NumDatasets |-> NoHist]
    /\ abortAt = 0

InitFind ==
    /\ pc = "find"
    /\ inp \in FindScenarios
    /\ out = NoOutput
    /\ Idle

FindCall ==
    /\ pc = "find"
    /\ out' = findAndScrapeUrl(WithText(inp))
    /\ pc' = "found"
    /\ UNCHANGED <<file, sources, idx, browser, open, launched, detailsUrl,
                   apiUrl, outcome, hist, abortAt, inp>>

SpecFind == InitFind /\ [][FindCall]_vars

-----------------------------------------------------------------------------
(* One call of scrapeApiUrlFromDetailsPage on every details page *)

Tokens == {GeoJson, <<>>, <<"FOUND">>}

InitDetails ==
    /\ pc = "scrape"
    /\ inp \in DetailScenarios(SeqsUpTo(RawValues, MaxInputs), Tokens)
    /\ out = NoOutput
    /\ Idle

ScrapeCall ==
    /\ pc = "scrape"
    /\ out' = scrapeApiUrlFromDetailsPage(inp)
    /\ pc' = "scraped"
    /\ UNCHANGED <<file, sources, idx, browser, open, launched, detailsUrl,
                   apiUrl, outcome, hist, abortAt, inp>>

SpecDetails == InitDetails /\ [][ScrapeCall]_vars

-----------------------------------------------------------------------------
(* One call of queryShadowDom on every small shadow-DOM chain.  The hosts   *)
(* h1, h2, h3 are nested: selector a of a host's shadow root finds the next *)
(* host (a leaf element for h3), selector b a leaf.  A host's shape says    *)
(* what its shadow root holds: "none" (no shadow root), "empty", "a", "b"   *)
(* or "ab".                                                                 *)

MaxPath == 2

A == <<"a">>
B == <<"b">>

InnerOf(h) == CASE h = "h1" -> "h2" [] h = "h2" -> "h3" [] OTHER -> "leafA"

ChainDom(shape) ==
    [h \in {x \in DOMAIN shape : shape[x] # "none"} |->
        Shadow({p \in { <<A, InnerOf(h)>> } : shape[h] \in {"a", "ab"}}
               \cup {p \in { <<B, "leafB">> } : shape[h] \in {"b", "ab"}})]

QueryScenarios ==
    [shape : [{"h1", "h2", "h3"} -> {"none", "empty", "a", "b", "ab"}],
     path : SeqsUpTo({A, B}, MaxPath), finalSelector : {A, B}]

InitQuery ==
    /\ pc = "query"
    /\ inp \in QueryScenarios
    /\ out = NoOutput
    /\ Idle

QueryCall ==
    /\ pc = "query"
    /\ out' = queryShadowDomRun(ChainDom(inp.shape), "h1", inp.path, inp.finalSelector)
    /\ pc' = "queried"
    /\ UNCHANGED <<file, sources, idx, browser, open, launched, detailsUrl,
                   apiUrl, outcome, hist, abortAt, inp>>

SpecQuery == InitQuery /\ [][QueryCall]_vars

-----------------------------------------------------------------------------
(* Two calls of loadAllResults, one after the other, on every catalog page  *)
(* whose count text is any '<a> - <b> of <c>' or one of a few other texts.  *)
(* A scenario says what the hydration wait watches (waitSees): "same", the  *)
(* element and text the read through the container handle finds, or         *)
(* "hydrated", another element whose text contains 'of'.                    *)

MaxCount == 3

\* "<a> - <b> of <c> results"
CountText(a, b, c) == <<Num(a), Dash, Num(b), Of, Num(c), Word>>

\* '1 - 12 of 26'
ExampleText == CountText(1, 12, 26)

\* "2 results": neither the pattern nor the word 'of'
NoOfText == <<Num(2), Word>>

\* the last page of a result set
LastPage(pageSize, total) == (total + pageSize - 1) \div pageSize

LoadTexts ==
    {CountText(a, b, c) : a \in 0..MaxCount, b \in 0..MaxCount, c \in 0..MaxCount}
    \cup {PortalText(p, t) : p \in 1..2, t \in 0..(2 * MaxPages)}
    \cup {ExampleText, OtherText, NoOfText}

LoadScenarios ==
    {sc \in [waitSees : {"same", "hydrated"}, readEl : BOOLEAN, text : LoadTexts,
             pageSize : 1..2, total : 0..(2 * MaxPages), cardPage : 0..MaxPages,
             stuck : {{}} \cup {{i} : i \in 0..(MaxPages - 1)}] :
        /\ sc.total <= sc.pageSize * MaxPages
        /\ sc.cardPage \in {0, LastPage(sc.pageSize, sc.total)}
        /\ sc.text # PortalText(sc.pageSize, sc.total) => sc.cardPage = 0
        /\ ~sc.readEl => (sc.text = OtherText /\ sc.stuck = {})}

\* lines 98-105: page.waitForFunction completes iff the count element it
\* watches gets a text that contains 'of' before the timeout
HydrationWait(sc) ==
    IF sc.waitSees = "same" THEN sc.readEl /\ HasOf(sc.text) ELSE TRUE

LoadPage(sc) ==
    [gotoOk |-> TRUE, catalogOk |-> TRUE, hosts |-> "all",
     waitOk |-> HydrationWait(sc), readEl |-> sc.readEl, text |-> sc.text,
     pageSize |-> sc.pageSize, total |-> sc.total, cardPage |-> sc.cardPage,
     link |-> "ok", term |-> "Dams", stuck |-> sc.stuck, absent |-> FALSE,
     endless |-> FALSE]

\* the count text at a later call: left as it was, or brought up to date
TextsAfter(sc, loaded) ==
    {sc.text} \cup {CountText(1, Min(loaded * sc.pageSize, sc.total), sc.total) :
                       x \in {y \in {1} : sc.total > 0}}

NotCalled ==
    [threw |-> FALSE, read |-> FALSE, clicks |-> 0, loaded |-> 0, diverged |-> FALSE,
     needed |-> [inf |-> FALSE, nan |-> FALSE, n |-> 0, per |-> 0]]

InitLoad ==
    /\ pc = "paginate"
    /\ inp \in LoadScenarios
    /\ out = [first |-> NotCalled, second |-> NotCalled, text2 |-> <<>>]
    /\ Idle

LoadCall ==
    /\ pc = "paginate"
    /\ out' = [out EXCEPT !.first = loadAllResultsFrom(LoadPage(inp), 1)]
    /\ pc' = "paginated"
    /\ UNCHANGED <<file, sources, idx, browser, open, launched, detailsUrl,
                   apiUrl, outcome, hist, abortAt, inp>>

LoadAgain ==
    /\ pc = "paginated"
    /\ \E t \in TextsAfter(inp, out.first.loaded) :
          out' = [out EXCEPT
                    !.second = loadAllResultsFrom(LoadPage([inp EXCEPT !.text = t]),
                                                  out.first.loaded),
                    !.text2 = t]
    /\ pc' = "repaginated"
    /\ UNCHANGED <<file, sources, idx, browser, open, launched, detailsUrl,
                   apiUrl, outcome, hist, abortAt, inp>>

SpecLoad == InitLoad /\ [][LoadCall \/ LoadAgain]_vars

-----------------------------------------------------------------------------
(* One call of findCardOnPage on every catalog page, with any number of     *)
(* pages loaded, for a plain search term and for one with an apostrophe     *)

CardScenarios ==
    {sc \in [hosts : {"all", "nolist", "nogallery", "noshadow"},
             pageSize : 1..2, total : 0..(2 * MaxPages), cardPage : 0..MaxPages,
             loaded : 1..MaxPages, term : {"Dams"} \cup Unescaped] :
        /\ sc.total <= sc.pageSize * MaxPages
        /\ sc.cardPage * sc.pageSize < sc.total + sc.pageSize
        /\ (sc.loaded - 1) * sc.pageSize < sc.total \/ sc.loaded = 1}

CardPage(sc) ==
    [gotoOk |-> TRUE, catalogOk |-> TRUE, hosts |-> sc.hosts, waitOk |-> TRUE,
     readEl |-> TRUE, text |-> PortalText(sc.pageSize, sc.total),
     pageSize |-> sc.pageSize, total |-> sc.total, cardPage |-> sc.cardPage,
     link |-> "ok", term |-> sc.term, stuck |-> {}, absent |-> FALSE,
     endless |-> FALSE]

InitCard ==
    /\ pc = "look"
    /\ inp \in CardScenarios
    /\ out = NoOutput
    /\ Idle

CardCall ==
    /\ pc = "look"
    /\ out' = [handle |-> findCardOnPage(CardPage(inp), inp.loaded)]
    /\ pc' = "looked"
    /\ UNCHANGED <<file, sources, idx, browser, open, launched, detailsUrl,
                   apiUrl, outcome, hist, abortAt, inp>>

SpecCard == InitCard /\ [][CardCall]_vars

-----------------------------------------------------------------------------
(* One call of processSourceDefinitions on every small configuration: with  *)
(* or without base_config (and a locator bag in it), one or two source      *)
(* definitions, each with or without a locator bag of its own, and up to    *)
(* MaxPerCategory datasets in each of three categories.  Dataset ids count  *)
(* up in file order.                                                        *)

MaxPerCategory == 2

FlattenShapes ==
    [base : {"absent", "url", "urlAndBag"}, bagA : BOOLEAN, bagB : BOOLEAN,
     twoDefs : BOOLEAN, n : [1..3 -> 0..MaxPerCategory]]

FlattenConfig(sh) ==
    LET ds(from, count) ==
            [k \in 1..count |-> [id |-> from + k, search_term |-> ToString(from + k)]]
        cat1 == [category |-> <<"a">>, datasets |-> ds(0, sh.n[1])]
        cat2 == [category |-> <<"b">>, datasets |-> ds(sh.n[1], sh.n[2])]
        cat3 == [category |-> <<"c">>, datasets |-> ds(sh.n[1] + sh.n[2], sh.n[3])]
        bag(has, b) == IF has THEN [selectors |-> b] ELSE EmptyObject
        defs == IF sh.twoDefs
                THEN << [name |-> "A", categories |-> <<cat1, cat2>>] @@ bag(sh.bagA, "bagA"),
                        [name |-> "B", categories |-> <<cat3>>] @@ bag(sh.bagB, "bagB") >>
                ELSE << [name |-> "A", categories |-> <<cat1, cat2, cat3>>]
                        @@ bag(sh.bagA, "bagA") >>
        base == [base_search_url |-> <<"http://x/">>] @@ bag(sh.base = "urlAndBag", "baseBag")
    IN  [source_definitions |-> defs]
        @@ (IF sh.base = "absent" THEN EmptyObject ELSE [base_config |-> base])

InitFlatten ==
    /\ pc = "flatten"
    /\ inp \in FlattenShapes
    /\ out = NoOutput
    /\ Idle

FlattenCall ==
    /\ pc = "flatten"
    /\ out' = [list |-> processSourceDefinitions(FlattenConfig(inp))]
    /\ pc' = "flattened"
    /\ UNCHANGED <<file, sources, idx, browser, open, launched, detailsUrl,
                   apiUrl, outcome, hist, abortAt, inp>>

SpecFlatten == InitFlatten /\ [][FlattenCall]_vars

-----------------------------------------------------------------------------
(* saveUrlToJson called once on a file (SpecSave) *)
-----------------------------------------------------------------------------
\* how many different ids the datasets of the file carry
MaxIds == 2

OldUrl == <<"https://svc/", "old">>
NewUrl == <<"https://svc/", "new">>

\* a dataset record as the file holds it: "bare" has no scraped_url key (the
\* test's mockConfig), "fresh" has it unset, "imported" has both keys set
SavedDataset(id, kind) ==
    LET core == [id |-> id, search_term |-> <<"term">>]
    IN  CASE kind = "bare" -> core @@ [imported |-> FALSE]
          [] kind = "fresh" -> core @@ [scraped_url |-> NULL, imported |-> FALSE]
          [] kind = "imported" -> core @@ [scraped_url |-> OldUrl, imported |-> TRUE]

\* two definitions, three categories, four datasets; ids may repeat
SaveConfig(ids, kinds) ==
    [base_config |-> [base_search_url |-> <<"http://x/">>],
     source_definitions |->
        << [name |-> "A",
            categories |-> << [category |-> <<"a">>,
                               datasets |-> << SavedDataset(ids[1], kinds[1]),
                                               SavedDataset(ids[2], kinds[2]) >>],
                              [category |-> <<"b">>,
                               datasets |-> << SavedDataset(ids[3], kinds[3]) >>] >>],
           [name |-> "B",
            categories |-> << [category |-> <<"c">>,
                               datasets |-> << SavedDataset(ids[4], kinds[4]) >>] >>] >>]

SaveScenarios ==
    {s \in [valid : BOOLEAN,
            ids : [1..4 -> 1..MaxIds],
            kinds : [1..4 -> {"bare", "fresh", "imported"}],
            datasetId : 1..(MaxIds + 1),
            io : {"ok", "readFail", "writeFail"}] :
        ~s.valid => /\ s.ids = [k \in 1..4 |-> 1]
                    /\ s.kinds = [k \in 1..4 |-> "fresh"]
                    /\ s.io = "ok"}

\* the file of a scenario: unparsable text has no configuration to speak of
SaveFile(s) == [valid |-> s.valid, config |-> SaveConfig(s.ids, s.kinds)]

InitSave ==
    /\ Idle
    /\ pc = "write"
    /\ inp \in SaveScenarios
    /\ out = NoOutput

SaveCall ==
    /\ pc = "write"
    /\ out' = saveUrlToJsonRun(SaveFile(inp), inp.datasetId, NewUrl, inp.io)
    /\ pc' = "written"
    /\ UNCHANGED <<file, sources, idx, browser, open, launched, detailsUrl,
                   apiUrl, outcome, hist, abortAt, inp>>

SpecSave == InitSave /\ [][SaveCall]_vars

-----------------------------------------------------------------------------
(* main as the file sees it, on files whose ids may repeat (SpecWrites) *)
-----------------------------------------------------------------------------
\* the ways four datasets can share ids, each written once: the first has
\* id 1 and each next one an id already used or the next unused one
IdPatterns ==
    {ids \in [1..4 -> 1..4] :
        /\ ids[1] = 1
        /\ \A k \in 2..4 : \E j \in 1..(k - 1) : ids[k] <= ids[j] + 1}

\* the API URL the two stages find for the k-th descriptor
UrlOf(k) == <<"https://svc/", ToString(k)>>

InitWrites ==
    /\ Idle
    /\ pc = "load"
    /\ inp \in [ids : IdPatterns, kinds : [1..4 -> {"fresh", "imported"}]]
    /\ out = [file |-> [valid |-> TRUE, config |-> SaveConfig(inp.ids, inp.kinds)],
              sources |-> <<>>, idx |-> 0, completed |-> {}, declined |-> {}]

\* lines 281-284: read, parse and flatten the file
WritesLoad ==
    /\ pc = "load"
    /\ out' = [out EXCEPT !.sources = processSourceDefinitions(out.file.config),
                          !.idx = 1]
    /\ pc' = "loop"
    /\ UNCHANGED <<file, sources, idx, browser, open, launched, detailsUrl,
                   apiUrl, outcome, hist, abortAt, inp>>

\* lines 287-290: if (source.imported) continue
WritesSkip ==
    /\ pc = "loop"
    /\ out.idx <= Len(out.sources)
    /\ IsImported(out.sources[out.idx])
    /\ out' = [out EXCEPT !.idx = @ + 1]
    /\ UNCHANGED <<pc, file, sources, idx, browser, open, launched, detailsUrl,
                   apiUrl, outcome, hist, abortAt, inp>>

\* what Stage 2 may hand back for the k-th descriptor: null, the empty
\* string (a link without href), or a URL
ApiUrls(k) == {Null, Val(<<>>), Val(UrlOf(k))}

\* lines 292-314: one turn; the stages throw (the run ends), or fail before
\* Stage 2 returns, or Stage 2 returns apiUrl, which line 302 tests and line
\* 305 hands to the writer
WritesTurn ==
    /\ pc = "loop"
    /\ out.idx <= Len(out.sources)
    /\ ~IsImported(out.sources[out.idx])
    /\ \/ /\ out' = out
          /\ pc' = "done"
       \/ /\ out' = [out EXCEPT !.idx = @ + 1]
          /\ pc' = pc
       \/ \E url \in ApiUrls(out.idx), io \in {"ok", "readFail", "writeFail"} :
             /\ pc' = pc
             /\ IF Truthy(url)
                THEN LET r == saveUrlToJsonRun(out.file, out.sources[out.idx].id,
                                               url.val, io)
                     IN  out' = [out EXCEPT
                                   !.file = r.file,
                                   !.completed = IF r.wrote THEN @ \cup {out.idx} ELSE @,
                                   !.idx = @ + 1]
                ELSE out' = [out EXCEPT
                               !.declined = IF url = Null THEN @ ELSE @ \cup {out.idx},
                               !.idx = @ + 1]
    /\ UNCHANGED <<file, sources, idx, browser, open, launched, detailsUrl,
                   apiUrl, outcome, hist, abortAt, inp>>

\* line 286: the for-loop is past the last descriptor
WritesExit ==
    /\ pc = "loop"
    /\ out.idx > Len(out.sources)
    /\ pc' = "done"
    /\ UNCHANGED <<file, sources, idx, browser, open, launched, detailsUrl,
                   apiUrl, outcome, hist, abortAt, inp, out>>

SpecWrites ==
    InitWrites /\ [][WritesLoad \/ WritesSkip \/ WritesTurn \/ WritesExit]_vars

-----------------------------------------------------------------------------
(* The notification relay: one request (SpecRelay) *)
-----------------------------------------------------------------------------
GIS_UPLOADS == "gis-uploads"
UNSET == "undefined"

\* !value of an environment variable: unset or the empty string
Falsy(value) == value \in {UNSET, ""}

\* what the handler hands back: a Response with a status and a body, or the
\* exception that left it
Response(status, body) == [kind |-> "response", status |-> status, body |-> body]
Rejected(what) == [kind |-> "throw", status |-> 0, body |-> what]

\* JSON.stringify({bucket: bucketId, path: filePath}): a key whose value is
\* undefined is left out
Body(bucketId, filePath) ==
    IF filePath = UNSET THEN [bucket |-> bucketId]
    ELSE [bucket |-> bucketId, path |-> filePath]

\* a handler that forwards every upload notice, whatever its bucket, and
\* tries a second time when the first call did not succeed
serveHandlerEager(rq, env, net) ==
    IF rq.json # "object" \/ ~rq.hasRecord
    THEN [answer |-> Rejected("TypeError"), fetches |-> <<>>]
    ELSE LET sent == << Body(rq.bucket_id, rq.name) >>
         IN  IF net = "ok" THEN [answer |-> Response(200, "success"), fetches |-> sent]
             ELSE [answer |-> Response(500, "endpoint failed"), fetches |-> sent \o sent]

\* a handler whose catch answers as if nothing had happened
serveHandlerSwallow(rq, env, net) ==
    [answer |-> Response(200, "success"), fetches |-> <<>>]

\* the handler of serve(): rq is the request body (json: "invalid", "null"
\* or "object", and then the payload's fields, a missing one being absent
\* from `has`), env the two environment variables, net what fetch does
\* ("ok", "nonOk", "reject").  fetches are the bodies POSTed downstream.
serveHandler(rq, env, net) ==
    IF rq.json = "invalid"
    THEN [answer |-> Rejected("SyntaxError"), fetches |-> <<>>]
    ELSE IF rq.json = "null"
    THEN [answer |-> Rejected("TypeError"), fetches |-> <<>>]
    ELSE IF ~(rq.type = "INSERT" /\ rq.table = "objects")
    THEN [answer |-> Response(200, "no action"), fetches |-> <<>>]
    ELSE IF ~rq.hasRecord
    THEN [answer |-> Rejected("TypeError"), fetches |-> <<>>]
    ELSE LET bucketId == rq.bucket_id
             filePath == rq.name
         IN  IF bucketId # GIS_UPLOADS
             THEN [answer |-> Response(200, "ignored"), fetches |-> <<>>]
             ELSE IF Falsy(env.BEAM_ENDPOINT_URL) \/ Falsy(env.BEAM_AUTH_TOKEN)
             THEN [answer |-> Response(500, "not set"), fetches |-> <<>>]
             ELSE LET sent == << Body(bucketId, filePath) >>
                  IN  CASE net = "reject" ->
                             [answer |-> Response(500, "fetch failed"), fetches |-> sent]
                        [] net = "nonOk" ->
                             [answer |-> Response(500, "endpoint failed"), fetches |-> sent]
                        [] net = "ok" ->
                             [answer |-> Response(200, "success"), fetches |-> sent]

\* a server that has no answer for a handler that rejected
respondUnguarded(result) == result.answer

\* serve(handler) of std/http: the Response the handler resolved to, or, when
\* the handler rejected, the answer of the default error handler (the error
\* is logged and the client gets 500 'Internal Server Error')
respond(result) ==
    IF result.answer.kind = "throw" THEN Response(500, "Internal Server Error")
    ELSE result.answer

RelayRequests ==
    {rq \in [json : {"invalid", "null", "object"},
             type : {"INSERT", "UPDATE", UNSET},
             table : {"objects", "other"},
             hasRecord : BOOLEAN,
             bucket_id : {GIS_UPLOADS, "other", UNSET},
             name : {"a.zip", "b.zip", UNSET}] :
        /\ rq.json # "object" => (rq.type = UNSET /\ rq.table = "other" /\ ~rq.hasRecord)
        /\ ~rq.hasRecord => (rq.bucket_id = UNSET /\ rq.name = UNSET)}

RelayEnv == [BEAM_ENDPOINT_URL : {UNSET, "", "https://beam/"},
             BEAM_AUTH_TOKEN : {UNSET, "", "token"}]

InitRelay ==
    /\ Idle
    /\ pc = "request"
    /\ inp \in [rq : RelayRequests, env : RelayEnv, net : {"ok", "nonOk", "reject"}]
    /\ out = NoOutput

Serve ==
    /\ pc = "request"
    /\ LET result == serveHandler(inp.rq, inp.env, inp.net)
       IN  out' = [answer |-> result.answer, fetches |-> result.fetches,
                   response |-> respond(result)]
    /\ pc' = "answered"
    /\ UNCHANGED <<file, sources, idx, browser, open, launched, detailsUrl,
                   apiUrl, outcome, hist, abortAt, inp>>

SpecRelay == InitRelay /\ [][Serve]_vars

-----------------------------------------------------------------------------
(* loadAllResults on count texts of every reading, degenerate ones         *)
(* included, on pages that may keep the control rendered (SpecDegenerate)   *)
-----------------------------------------------------------------------------
DegenerateScenarios ==
    [a : 0..MaxCount, b : 0..MaxCount, c : 0..MaxCount, endless : BOOLEAN,
     pageSize : 1..2, total : 0..MaxCount,
     stuck : {{}} \cup {{i} : i \in 0..(MaxPages - 1)}]

DegeneratePage(sc) ==
    [gotoOk |-> TRUE, catalogOk |-> TRUE, hosts |-> "all", waitOk |-> TRUE,
     readEl |-> TRUE, text |-> CountText(sc.a, sc.b, sc.c),
     pageSize |-> sc.pageSize, total |-> sc.total, cardPage |-> 0,
     link |-> "ok", term |-> "Dams", stuck |-> sc.stuck, absent |-> FALSE,
     endless |-> sc.endless]

InitDegenerate ==
    /\ Idle
    /\ pc = "paginate"
    /\ inp \in DegenerateScenarios
    /\ out = NotCalled

DegenerateCall ==
    /\ pc = "paginate"
    /\ out' = loadAllResultsFrom(DegeneratePage(inp), 1)
    /\ pc' = "paginated"
    /\ UNCHANGED <<file, sources, idx, browser, open, launched, detailsUrl,
                   apiUrl, outcome, hist, abortAt, inp>>

SpecDegenerate == InitDegenerate /\ [][DegenerateCall]_vars

-----------------------------------------------------------------------------
(* Properties of the batch run (Spec) *)

Loaded == Len(sources) = NumDatasets
StageFailed(k) == outcome[k] \in {"stage1", "stage2"}
\* the record of the k-th dataset as the file holds it now / held it at load
Now(k) == Records(file)[k]
AtLoad(k) == [id |-> sources[k].id, search_term |-> sources[k].search_term,
              imported |-> sources[k].imported, scraped_url |-> sources[k].scraped_url]

\* C1: a stage failure of descriptor i does not stop the batch: when the run
\* is over and a later descriptor j, not marked imported, was not processed,
\* then the run was cut by an error raised in the turn of a descriptor after i
\* (up to j), never by the stage failure of i.
C1_StageFailureKeepsBatchGoing ==
    (pc = "done" /\ Loaded) =>
        \A i \in 1..NumDatasets : \A j \in (i + 1)..NumDatasets :
            (StageFailed(i) /\ ~sources[j].imported /\ hist[j].sessions = 0)
                => abortAt \in (i + 1)..j

\* a run in which two stage failures are followed by a processed descriptor
C1_Witness ==
    /\ pc = "done" /\ Loaded /\ abortAt = 0
    /\ outcome[1] = "stage1" /\ outcome[2] = "stage2"
    /\ hist[NumDatasets].sessions = 1 /\ outcome[NumDatasets] = "saved"

\* C2: an unexpected error of the automation surface in the turn of descriptor
\* i is the failure of i only: every later descriptor not marked imported is
\* processed in the same run.
C2_ErrorConfinedToDataset ==
    (pc = "done" /\ Loaded) =>
        \A i \in 1..NumDatasets : \A j \in (i + 1)..NumDatasets :
            (outcome[i] = "error" /\ ~sources[j].imported) => outcome[j] # "none"

\* C3: no session is open between two descriptors or when main has finished,
\* and the only session that can be open is the one main's variable holds.
C3_SessionsClosed ==
    /\ pc \in {"loop", "done"} => open = {}
    /\ open \subseteq {browser}

\* main has finished after an error in the turn of the second session
C3_Witness ==
    /\ pc = "done" /\ launched = 2 /\ abortAt >= 1
    /\ outcome[abortAt] = "error" /\ hist[abortAt].s2 = "href"

C5_ImportedIsSkipped ==
    [][(pc = "loop" /\ idx <= Len(sources) /\ sources[idx].imported) =>
           (/\ file' = file /\ open' = open /\ launched' = launched
            /\ browser' = browser /\ hist' = hist
            /\ idx' = idx + 1 /\ pc' = "loop")]_vars

\* an imported descriptor was skipped in a run that processed another one
C5_Witness ==
    /\ Loaded /\ launched >= 1
    /\ \E k \in 1..NumDatasets :
          /\ sources[k].imported /\ outcome[k] = "skipped"
          /\ hist[k] = NoHist /\ Now(k) = AtLoad(k)

C9_NavigationTimeoutConfined ==
    (pc = "done" /\ Loaded) =>
        \A i \in 1..NumDatasets :
            hist[i].s2 = "goto" =>
                /\ hist[i].navs2 = 1
                /\ hist[i].saves = 0 /\ Now(i) = AtLoad(i)
                /\ \A j \in (i + 1)..NumDatasets :
                       ~sources[j].imported => outcome[j] # "none"

\* the writer was called for descriptor k and left the file as it was
SaveFailed(k) == hist[k].saves = 1 /\ Now(k) = AtLoad(k)

\* C24: a write-back that fails does not stop the batch: the call returns to
\* main, which closes the session of that turn and goes on; when the run is
\* over and a later descriptor not marked imported was not processed, an
\* error raised in a later turn cut the run, never the failed write-back.
C24_SaveFailureKeepsBatchGoing ==
    Loaded =>
        \A i \in 1..NumDatasets :
            SaveFailed(i) =>
                /\ abortAt # i
                /\ idx = i => (pc = "close" /\ open = {browser})
                /\ (idx > i /\ pc = "loop") => open = {}
                /\ pc = "done" =>
                      \A j \in (i + 1)..NumDatasets :
                          (~sources[j].imported /\ hist[j].sessions = 0)
                              => abortAt \in (i + 1)..j

\* the run is over: the first write-back failed, the next descriptor was
\* processed and saved
C24_Witness ==
    /\ pc = "done" /\ Loaded /\ abortAt = 0
    /\ SaveFailed(1) /\ ~Now(1).imported
    /\ hist[2].sessions = 1 /\ Now(2).imported

\* the program counter is inside the turn of descriptor idx, session acquired
InTurn == pc \in {"newPage", "stage1", "stage2", "save", "close"}

\* C26: at most one session is open; a session is acquired once per
\* processed descriptor and is the one every step of that turn uses, so no
\* session serves two descriptors; nothing has been done for a descriptor
\* after the current one, and every descriptor before it is finished.
C26_OneSessionOneDescriptor ==
    Loaded =>
        /\ Cardinality(open) <= 1
        /\ \A k \in 1..NumDatasets :
              /\ hist[k].sessions <= 1
              /\ (hist[k].navs1 > 0 \/ hist[k].navs2 > 0 \/ hist[k].saves > 0)
                    => (hist[k].sessions = 1 /\ ~sources[k].imported)
              /\ k > idx => (hist[k] = NoHist /\ outcome[k] = "none")
              /\ (k < idx /\ pc # "done") => outcome[k] \notin {"none", "error", "nosession"}
              /\ (hist[k].navs2 > 0 \/ hist[k].saves > 0) => hist[k].navs1 = 1
        /\ launched = Cardinality({k \in 1..NumDatasets : hist[k].sessions = 1})
        /\ InTurn => (/\ open = {browser} /\ browser = launched
                      /\ hist[idx].sessions = 1
                      /\ \A k \in 1..(idx - 1) : outcome[k] # "none")

\* a run that processed every descriptor, each in a session of its own
C26_Witness ==
    /\ pc = "done" /\ Loaded /\ abortAt = 0
    /\ launched = NumDatasets /\ open = {}
    /\ \A k \in 1..NumDatasets : hist[k].sessions = 1 /\ hist[k].navs2 = 1

\* C28: Stage 2 runs only on a details URL that Stage 1 returned: when
\* findAndScrapeUrl returned not-found (no card, or a card whose link did not
\* resolve, or an empty href) scrapeApiUrlFromDetailsPage is never called
\* for that descriptor, nothing is saved for it and its turn ends as a
\* Stage-1 failure.
C28_Stage2OnlyWithDetailsUrl ==
    Loaded =>
        /\ \A k \in 1..NumDatasets :
              /\ hist[k].s1 = "null" =>
                    /\ hist[k].navs2 = 0 /\ hist[k].s2 = "none" /\ hist[k].saves = 0
                    /\ outcome[k] = "stage1"
                    /\ Now(k) = AtLoad(k)
              /\ (hist[k].navs2 > 0 \/ hist[k].s2 # "none") => hist[k].s1 = "url"
        /\ pc = "stage2" => (detailsUrl.kind = "url" /\ detailsUrl.val # <<>>)

\* the first descriptor failed Stage 1, the second one went into Stage 2
C28_Witness ==
    /\ pc = "done" /\ Loaded
    /\ hist[1].s1 = "null" /\ hist[1].navs1 = 1 /\ hist[1].navs2 = 0
    /\ outcome[1] = "stage1"
    /\ hist[2].s1 = "url" /\ hist[2].navs2 = 1

-----------------------------------------------------------------------------
(* Properties of one call of findAndScrapeUrl (SpecFind) *)

\* the wanted card is among the entries of the first `loaded` pages
CardLoaded(sc, loaded) == sc.hosts = "all" /\ sc.cardPage \in 1..loaded

Positions(calls, what) == {i \in 1..Len(calls) : calls[i] = what}

\* C6: one call paginates at most once, and only after a first lookup that
\* missed; it looks up the card at most twice; when the second lookup misses
\* too, the call ends there with not-found.
C6_OnePaginationPass ==
    pc = "found" =>
        LET calls == out.calls
            loads == Positions(calls, "loadAllResults")
            finds == Positions(calls, "findCardOnPage")
        IN  /\ Cardinality(loads) <= 1
            /\ Cardinality(finds) <= 2
            /\ \A i \in loads :
                  /\ \E j \in finds : j < i
                  /\ ~CardLoaded(inp, 1)
            /\ (Cardinality(finds) = 2 /\ ~CardLoaded(inp, 1 + out.clicks)) =>
                  (out.res = Null /\ calls[Len(calls)] = "findCardOnPage")

\* a call that paginated, looked twice and still missed
C6_Witness ==
    /\ pc = "found" /\ out.res = Null /\ out.clicks >= 1
    /\ Cardinality(Positions(out.calls, "findCardOnPage")) = 2
    /\ Cardinality(Positions(out.calls, "loadAllResults")) = 1

-----------------------------------------------------------------------------
(* Properties of one call of scrapeApiUrlFromDetailsPage (SpecDetails) *)

\* the page is reached and the API-resources panel opens
PanelOpens(d) ==
    /\ d.gotoOk /\ d.primary = "ok"
    /\ d.explore => (d.infoBtn # "missing" /\ d.detailsLink)

\* C8: once the details page is reached, no error raised while traversing it
\* leaves the call: the call returns a URL or null.
C8_NoTraversalErrorEscapes ==
    (pc = "scraped" /\ inp.gotoOk) => out.res.kind # "throw"

\* C10: when the panel opens and a candidate's value (as collected: the
\* input's value, or the placeholder for an empty one) contains the match
\* token, the call returns the value of the first such candidate and never
\* queries the fallback link.
C10_FirstMatchingInput ==
    (pc = "scraped" /\ PanelOpens(inp)) =>
        LET value == FoundData(inp.inputs)
        IN  \A i \in 1..Len(value) :
                (/\ Includes(value[i], inp.token)
                 /\ \A j \in 1..(i - 1) : ~Includes(value[j], inp.token))
                => (/\ out.res = Val(value[i])
                    /\ Positions(out.calls, "queryFallback") = {})

\* two inputs match, with different values, and a fallback link is present
C10_Witness ==
    /\ pc = "scraped" /\ PanelOpens(inp) /\ inp.fallback = "present"
    /\ Len(inp.inputs) = 2 /\ inp.inputs[1] # inp.inputs[2]
    /\ Includes(inp.inputs[1], inp.token) /\ Includes(inp.inputs[2], inp.token)
    /\ inp.token = GeoJson
    /\ out.res = Val(inp.inputs[1])

\* the page is reached and the explore workflow, if any, goes through
PrimaryReached(d) ==
    /\ d.gotoOk
    /\ d.explore => (d.infoBtn # "missing" /\ d.detailsLink)

\* no candidate value, as collected from the panel's inputs, contains the token
NoMatchingInput(d) ==
    \A i \in 1..Len(d.inputs) :
        ~Includes(IF d.inputs[i] = <<>> THEN VALUE_NOT_FOUND ELSE d.inputs[i], d.token)

\* the primary strategy is entered and ends without a URL: the API-resources
\* control times out, a step inside its scope raises, or no value matches
PrimaryYieldsNothing(d) ==
    /\ PrimaryReached(d)
    /\ \/ d.primary \in {"timeout", "clickThrows", "noContainer"}
       \/ d.primary = "evalThrows" /\ d.inputs # <<>>
       \/ NoMatchingInput(d)

\* C11: whenever the primary strategy ends without a URL, the fallback link
\* is queried next (once, after every primary step), and when the link is
\* there and its href can be read, that href is what the call returns.
C11_FallbackAfterPrimary ==
    (pc = "scraped" /\ PrimaryYieldsNothing(inp)) =>
        LET calls == out.calls
            q == Positions(calls, "queryFallback")
            primarySteps == {"waitApiButton", "clickApiButton", "waitContainer",
                             "enumerate", "evaluateInput"}
        IN  /\ Cardinality(q) = 1
            /\ \A i \in q : \A j \in 1..Len(calls) :
                   calls[j] \in primarySteps => j < i
            /\ inp.fallback = "present" => out.res = Val(FallbackHref)
            /\ inp.fallback = "empty" => out.res = Val(<<>>)

\* the panel opened, its only input did not match, and the link's URL came back
C11_Witness ==
    /\ pc = "scraped" /\ PanelOpens(inp) /\ inp.token = GeoJson
    /\ Len(inp.inputs) = 1 /\ inp.inputs[1] # <<>> /\ NoMatchingInput(inp)
    /\ inp.fallback = "present" /\ out.res = Val(FallbackHref)
    /\ Positions(out.calls, "readHref") # {}

\* C12: on a page that is reached and offers neither an input whose value
\* contains the token nor a fallback link, the call returns null; it does
\* not throw.
C12_NullWhenNothingOffered ==
    (pc = "scraped" /\ inp.gotoOk /\ NoMatchingInput(inp) /\ inp.fallback = "absent")
        => out.res = Null

\* the panel opened with two inputs, neither matched, no link: null
C12_Witness ==
    /\ pc = "scraped" /\ PanelOpens(inp) /\ inp.fallback = "absent"
    /\ Len(inp.inputs) = 2 /\ NoMatchingInput(inp) /\ inp.token = GeoJson
    /\ Positions(out.calls, "queryFallback") # {}
    /\ out.res = Null

-----------------------------------------------------------------------------
(* Properties of one call of queryShadowDom (SpecQuery) *)

\* the element the first n evaluations of a call arrive at
Along(dom, parentHandle, evals, n) ==
    LET at[k \in 0..n] ==
            IF k = 0 THEN parentHandle ELSE ShadowQuery(dom, at[k - 1], evals[k])
    IN  at[n]

\* C19: the selectors a call evaluates are a prefix of its path followed by
\* the terminal selector; an evaluation that finds no element (the selector
\* matches nothing, or the current element has no shadow root) is the last
\* one, the call returns not-found, and when it was a path selector neither
\* the rest of the path nor the terminal selector is evaluated.
C19_ShortCircuit ==
    pc = "queried" =>
        LET dom == ChainDom(inp.shape)
            all == inp.path \o <<inp.finalSelector>>
            evals == out.evals
        IN  /\ Len(evals) <= Len(all)
            /\ \A n \in 1..Len(evals) : evals[n] = all[n]
            /\ \A n \in 1..Len(evals) :
                   Along(dom, "h1", evals, n) = NULL =>
                      /\ n = Len(evals)
                      /\ out.handle = NULL
            /\ Len(evals) < Len(all) =>
                   Along(dom, "h1", evals, Len(evals)) = NULL

\* the first of two path selectors meets a host without a shadow root and
\* nothing else is evaluated
C19_Witness ==
    /\ pc = "queried" /\ Len(inp.path) = 2 /\ inp.shape["h1"] = "none"
    /\ out.handle = NULL /\ out.evals = <<inp.path[1]>>

\* the first path selector finds its host, the second matches nothing there
C19_WitnessMiss ==
    /\ pc = "queried" /\ Len(inp.path) = 2 /\ inp.shape["h2"] = "b"
    /\ inp.path = <<A, A>> /\ out.handle = NULL /\ out.evals = inp.path

-----------------------------------------------------------------------------
(* Properties of loadAllResults (SpecLoad) *)

\* C13: the activations of one call never exceed the clicksNeeded that
\* follows from the count as first read (none when the count is not read or
\* does not match; fewer than ceil(c / pageSize) when pageSize > 0; none when
\* pageSize < 0 or 0/0), and an iteration that finds the control
\* unresolvable is the last: nothing is activated at or after it.
C13_ClicksBounded ==
    pc \in {"paginated", "repaginated"} =>
        LET m == MatchCount(inp.text)
            per == m.b - m.a + 1
            r == out.first
        IN  /\ (~r.read \/ ~m.matched) => r.clicks = 0
            /\ (m.matched /\ per > 0) => (r.clicks = 0 \/ r.clicks * per < m.c)
            /\ (m.matched /\ per < 0) => r.clicks = 0
            /\ (m.matched /\ per = 0 /\ m.c = 0) => r.clicks = 0
            /\ \A i \in inp.stuck : r.clicks <= i
            /\ r.clicks > 0 => (r.loaded - 1) * inp.pageSize < inp.total
            /\ r.loaded = 1 + r.clicks

\* two more activations were due, the control could not be resolved at the
\* second iteration, and the call made one activation with entries left
C13_Witness ==
    /\ pc = "paginated" /\ inp.stuck = {1}
    /\ out.first.read /\ out.first.needed.n = 2 /\ out.first.clicks = 1
    /\ out.first.loaded * inp.pageSize < inp.total

\* pageSize and clicksNeeded as the call computes them from the count text
\* '<a> - <b> of <c>' it reads: pageSize is b - a + 1, and clicksNeeded is
\* ceil(c / pageSize) - 1, the integer n with n < c / pageSize <= n + 1;
\* in IEEE arithmetic Infinity for pageSize = 0 < c and NaN for 0 / 0
CeilFormula ==
    (pc \in {"paginated", "repaginated"} /\ out.first.read
        /\ MatchCount(inp.text).matched) =>
        LET m == MatchCount(inp.text)
            per == m.b - m.a + 1
            cn == out.first.needed
        IN  /\ cn.per = per
            /\ per > 0 => /\ ~cn.inf /\ ~cn.nan
                           /\ cn.n * per < m.c /\ m.c <= (cn.n + 1) * per
            /\ per < 0 => /\ ~cn.inf /\ ~cn.nan
                           /\ cn.n * per > m.c /\ m.c >= (cn.n + 1) * per
            /\ per = 0 => /\ cn.inf = (m.c > 0)
                           /\ cn.nan = (m.c = 0)

\* the call read the example text '1 - 12 of 26'
ExampleRead ==
    pc \in {"paginated", "repaginated"} /\ out.first.read /\ inp.text = ExampleText

\* C14 as stated: pageSize = b - a + 1 and clicksNeeded = ceil(c / pageSize) - 1
\* for every matching count text, and '1 - 12 of 26' gives 12 and 1.
C14_AsStated ==
    /\ CeilFormula
    /\ ExampleRead => (out.first.needed.per = 12 /\ out.first.needed.n = 1)

\* C14, amended: pageSize = b - a + 1 and clicksNeeded = ceil(c / pageSize) - 1
\* for every matching count text the call reads, and '1 - 12 of 26' gives
\* pageSize 12 and clicksNeeded 2 (ceil(26 / 12) = 3).
C14_PageArithmetic ==
    /\ CeilFormula
    /\ ExampleRead => (out.first.needed.per = 12 /\ out.first.needed.n = 2)

\* the example text is read
C14_Witness ==
    /\ ExampleRead /\ pc = "paginated"
    /\ out.first.needed.per = 12 /\ out.first.needed.n = 2

\* ceil holds for a count that does not divide evenly
C14_WitnessUneven ==
    /\ pc = "paginated" /\ inp.text = CountText(1, 2, 3) /\ out.first.read
    /\ out.first.needed.per = 2 /\ out.first.needed.n = 1

\* C15: when the count element cannot be resolved from the container
\* handle, or its text does not match '<a> - <b> of <c>', the call makes no
\* activation and returns normally.
C15_NoCountNoAction ==
    (pc = "paginated" /\ (~inp.readEl \/ ~MatchCount(inp.text).matched)) =>
        (~out.first.threw /\ out.first.clicks = 0)

\* C16: a second call on a page whose entries are all loaded makes no
\* activation, whether or not the count text was brought up to date.
C16_IdempotentWhenLoaded ==
    (pc = "repaginated" /\ out.first.loaded * inp.pageSize >= inp.total) =>
        (out.second.clicks = 0 /\ out.second.loaded = out.first.loaded)

\* the first call loaded the rest; the second read a stale count that asks
\* for more activations and made none
C16_Witness ==
    /\ pc = "repaginated" /\ out.first.clicks >= 1
    /\ out.first.loaded * inp.pageSize >= inp.total
    /\ out.second.read /\ out.second.needed.n >= 1 /\ out.second.clicks = 0

\* C17: on a portal that shows its true count and renders the control while
\* entries remain, a call that returns has loaded all `total` entries, and
\* findCardOnPage then finds any card of the result set.
C17_AllLoadedThenFound ==
    (pc \in {"paginated", "repaginated"} /\ inp.stuck = {} /\ ~out.first.threw
        /\ inp.text = PortalText(inp.pageSize, inp.total)) =>
        /\ out.first.loaded * inp.pageSize >= inp.total
        /\ inp.cardPage >= 1 => findCardOnPage(LoadPage(inp), out.first.loaded) = "card"

\* a card of the last page, not found before the call and found after it
C17_Witness ==
    /\ pc = "paginated" /\ inp.cardPage >= 2 /\ out.first.clicks >= 1
    /\ inp.text = PortalText(inp.pageSize, inp.total) /\ inp.stuck = {}
    /\ findCardOnPage(LoadPage(inp), 1) = NULL
    /\ findCardOnPage(LoadPage(inp), out.first.loaded) = "card"

-----------------------------------------------------------------------------
(* Stage-1 timeouts (SpecFind) and findCardOnPage (SpecCard) *)

\* C18: a call of findAndScrapeUrl in which the navigation, the wait for the
\* catalog container or the hydration wait of loadAllResults times out ends
\* with a result (null, the Stage-1 failure), not with an exception.
C18_TimeoutIsNotFound ==
    (pc = "found" /\ (~inp.gotoOk \/ ~inp.catalogOk \/ ~inp.waitOk)) =>
        out.res.kind # "throw"

\* C20: when no entry of the loaded result set matches the search key (the
\* card is in no page, in a page not yet loaded, or a host of the gallery
\* path is missing or has no shadow root), findCardOnPage returns null and
\* raises nothing.
C20_NullWhenNoMatch ==
    (pc = "looked" /\ ~CardLoaded(inp, inp.loaded)) => out.handle = NULL

\* the same for a search key that leaves the card selector valid CSS
PlainKeyNotFound ==
    (pc = "looked" /\ ~CardLoaded(inp, inp.loaded) /\ inp.term \notin Unescaped)
        => out.handle = NULL

\* a plain key is found once its page is loaded
PlainKeyFound ==
    (pc = "looked" /\ CardLoaded(inp, inp.loaded) /\ inp.term \notin Unescaped)
        => out.handle = "card"

-----------------------------------------------------------------------------
(* Properties of processSourceDefinitions (SpecFlatten) *)

\* the places <<definition, category, dataset>> of a configuration's dataset
\* records, in configuration order
Places(config) ==
    Concat([i \in 1..Len(config.source_definitions) |->
        Concat([c \in 1..Len(config.source_definitions[i].categories) |->
            [k \in 1..Len(config.source_definitions[i].categories[c].datasets) |->
                <<i, c, k>>]])])

\* one record per dataset, in configuration order, each with its dataset's id
\* and search_term, its definition's name, and as origin_url the base search
\* URL followed by its category's token
FlattenedInOrder ==
    (pc = "flattened" /\ inp.base # "absent") =>
        LET config == FlattenConfig(inp)
            places == Places(config)
        IN  /\ Len(out.list) = Len(places)
            /\ \A j \in 1..Len(places) :
                  LET definition == config.source_definitions[places[j][1]]
                      category == definition.categories[places[j][2]]
                      dataset == category.datasets[places[j][3]]
                  IN  /\ out.list[j].id = dataset.id
                      /\ out.list[j].search_term = dataset.search_term
                      /\ out.list[j].name = definition.name
                      /\ out.list[j].origin_url =
                             config.base_config.base_search_url \o category.category

\* every record of a definition that has a locator bag carries that bag
DefinitionBagInherited ==
    pc = "flattened" =>
        LET config == FlattenConfig(inp)
            places == Places(config)
        IN  \A j \in 1..Min(Len(places), Len(out.list)) :
                LET definition == config.source_definitions[places[j][1]]
                IN  "selectors" \in DOMAIN definition =>
                        /\ "selectors" \in DOMAIN out.list[j]
                        /\ out.list[j].selectors = definition.selectors

\* C21: the flattened list holds one record per dataset, in configuration
\* order; each record's origin_url is the base search URL followed by its
\* category's token, and each record carries its own id and search_term and
\* the locator bag of its enclosing source definition.
C21_FlattenedRecords == FlattenedInOrder /\ DefinitionBagInherited

\* what the records carry instead: the fields of base_config, a locator bag
\* among them when base_config has one
BaseConfigInherited ==
    (pc = "flattened" /\ inp.base = "urlAndBag") =>
        \A j \in 1..Len(out.list) : out.list[j].selectors = "baseBag"


-----------------------------------------------------------------------------
(* Properties of the write-back (SpecSave) *)
-----------------------------------------------------------------------------
\* the records of the file before the call, and where they sit
RecordsBefore == Records(SaveFile(inp))
Hits == {k \in 1..Len(RecordsBefore) : RecordsBefore[k].id = inp.datasetId}
FirstHit == CHOOSE k \in Hits : \A j \in Hits : k <= j
Completed == pc = "written" /\ inp.valid /\ inp.io = "ok" /\ Hits # {}

\* the file afterwards with one record put back as it was
PutBack(config, p, dataset) ==
    [config EXCEPT !.source_definitions[p[1]].categories[p[2]].datasets[p[3]] = dataset]

C23_UnknownIdNoMutation ==
    (pc = "written" /\ inp.valid /\ Hits = {}) =>
        /\ ~out.wrote
        /\ out.file = SaveFile(inp)
        /\ ~out.threw
        /\ inp.io # "readFail" => out.log = "warn"

C23_Witness ==
    /\ pc = "written"
    /\ inp.valid /\ inp.io = "ok" /\ Hits = {}
    /\ out.log = "warn" /\ ~out.wrote


-----------------------------------------------------------------------------
(* Properties of the write-backs of a run (SpecWrites) *)
-----------------------------------------------------------------------------
\* the k-th dataset of the file has the URL its write-back stored
Kept(k) ==
    LET dataset == Records(out.file)[k]
    IN  dataset.imported /\ dataset.scraped_url = UrlOf(k)

UniqueIds == \A j, k \in 1..4 : inp.ids[j] = inp.ids[k] => j = k

\* C25: at every point of a run, and so at its end, the file holds imported =
\* true and the stored scraped_url for every dataset whose write-back
\* completed: no later read-modify-write takes an earlier update back.
C25_WriteBacksKept ==
    \A k \in out.completed : Kept(k)

\* the same, for files in which no two datasets share an id
WriteBacksKeptWhenIdsUnique ==
    UniqueIds => \A k \in out.completed : Kept(k)

\* a run over unique ids in which an earlier update outlives a later one
WriteBacksKeptReached ==
    /\ pc = "done" /\ UniqueIds
    /\ {1, 4} \subseteq out.completed /\ Kept(1) /\ Kept(4)


-----------------------------------------------------------------------------
(* Properties of the notification relay (SpecRelay) *)
-----------------------------------------------------------------------------
\* the request is an INSERT on 'objects' that carries a record
UploadNotice ==
    /\ inp.rq.json = "object" /\ inp.rq.type = "INSERT"
    /\ inp.rq.table = "objects" /\ inp.rq.hasRecord

Configured == ~Falsy(inp.env.BEAM_ENDPOINT_URL) /\ ~Falsy(inp.env.BEAM_AUTH_TOKEN)

\* C27: for an upload notice the relay answers 200 when the bucket is not
\* 'gis-uploads' or the downstream call succeeded, and 500 when the bucket is
\* 'gis-uploads' and the URL or the token is not configured, or the
\* downstream call fails or answers non-OK.
C27_RelayStatus ==
    (pc = "answered" /\ UploadNotice) =>
        /\ out.answer.kind = "response"
        /\ inp.rq.bucket_id # GIS_UPLOADS => out.answer.status = 200
        /\ (inp.rq.bucket_id = GIS_UPLOADS /\ Configured /\ inp.net = "ok")
              => out.answer.status = 200
        /\ (inp.rq.bucket_id = GIS_UPLOADS /\ ~Configured) => out.answer.status = 500
        /\ (inp.rq.bucket_id = GIS_UPLOADS /\ inp.net # "ok") => out.answer.status = 500

\* a notice for 'gis-uploads' answered 500 after the endpoint said non-OK
C27_Witness ==
    /\ pc = "answered" /\ UploadNotice /\ Configured
    /\ inp.rq.bucket_id = GIS_UPLOADS /\ inp.net = "nonOk"
    /\ out.answer.status = 500 /\ Len(out.fetches) = 1


-----------------------------------------------------------------------------
(* Stage 1 without a details URL (SpecFind) *)
-----------------------------------------------------------------------------
\* a call that completed without the card among the loaded entries, or with
\* a card whose link element did not resolve, returned not-found
NoCardOrNoLinkIsNotFound ==
    (pc = "found" /\ out.res.kind # "throw") =>
        /\ ~CardLoaded(inp, 1 + out.clicks) => out.res = Null
        /\ (CardLoaded(inp, 1 + out.clicks) /\ inp.link = "none") => out.res = Null

NoLinkReached ==
    /\ pc = "found" /\ CardLoaded(inp, 1 + out.clicks) /\ inp.link = "none"
    /\ out.res = Null /\ out.calls[Len(out.calls)] = "extractUrlFromCard"


-----------------------------------------------------------------------------
(* Properties of the explore workflow (SpecDetails) *)
-----------------------------------------------------------------------------
ExploreCalls == {"waitInfoButton", "clickInfoButton", "waitDetailsLink", "clickDetailsLink"}
StrategyCalls == {"waitApiButton", "clickApiButton", "waitContainer", "enumerate",
                  "evaluateInput", "queryFallback", "readHref"}
Made(what) == Positions(out.calls, what)

\* C29: on a landed URL with '/explore' whose toggle resolves, the toggle is
\* clicked exactly when its class does not say 'active' (and then once, after
\* it was located); when the 'view full details' control resolves it is
\* activated once, after the toggle was dealt with, in both cases.  On any
\* other URL none of the two controls is looked up or activated.
C29_ToggleOnlyWhenInactive ==
    (pc = "scraped" /\ inp.gotoOk) =>
        /\ (inp.explore /\ inp.infoBtn # "missing") =>
              /\ Cardinality(Made("clickInfoButton")) = (IF inp.infoBtn = "inactive" THEN 1 ELSE 0)
              /\ \A c \in Made("clickInfoButton") : \E w \in Made("waitInfoButton") : w < c
              /\ inp.detailsLink =>
                    /\ Cardinality(Made("clickDetailsLink")) = 1
                    /\ \A a \in Made("clickDetailsLink") :
                          /\ \A c \in Made("clickInfoButton") \cup Made("waitInfoButton") : c < a
                          /\ \E w \in Made("waitDetailsLink") : w < a
        /\ ~inp.explore => \A i \in 1..Len(out.calls) : out.calls[i] \notin ExploreCalls

\* an open panel was left open and the details control activated
C29_Witness ==
    /\ pc = "scraped" /\ inp.gotoOk /\ inp.explore
    /\ inp.infoBtn = "active" /\ inp.detailsLink
    /\ Made("clickInfoButton") = {} /\ Made("clickDetailsLink") # {}

\* a closed panel was opened before the details control was activated
C29_WitnessInactive ==
    /\ pc = "scraped" /\ inp.gotoOk /\ inp.explore
    /\ inp.infoBtn = "inactive" /\ inp.detailsLink
    /\ Made("clickInfoButton") # {} /\ Made("clickDetailsLink") # {}

\* C30: on a landed URL with '/explore', when the toggle or the 'view full
\* details' control does not resolve, the call returns not-found and has
\* made no step of the primary or of the fallback strategy.
C30_ExploreFailureAborts ==
    (pc = "scraped" /\ inp.gotoOk /\ inp.explore
        /\ (inp.infoBtn = "missing" \/ ~inp.detailsLink)) =>
        /\ out.res = Null
        /\ \A i \in 1..Len(out.calls) : out.calls[i] \notin StrategyCalls
        /\ Made("clickDetailsLink") = {}

\* the details control did not resolve on a page whose panel and fallback
\* link would both have given a URL
C30_Witness ==
    /\ pc = "scraped" /\ inp.gotoOk /\ inp.explore
    /\ inp.infoBtn = "inactive" /\ ~inp.detailsLink
    /\ inp.primary = "ok" /\ inp.fallback = "present"
    /\ \E i \in 1..Len(inp.inputs) : Includes(inp.inputs[i], inp.token)
    /\ out.res = Null /\ Made("waitDetailsLink") # {}


-----------------------------------------------------------------------------
(* Properties of the hydration wait (SpecLoad) *)
-----------------------------------------------------------------------------
\* C31: the count text is read and parsed only in a call whose hydration
\* wait completed, that is after the element the wait watches resolved with
\* a text containing 'of'; a call whose wait timed out read nothing, parsed
\* nothing and activated nothing.
C31_ReadOnlyAfterHydration ==
    pc \in {"paginated", "repaginated"} =>
        /\ out.first.read => (~out.first.threw /\ HydrationWait(inp))
        /\ ~HydrationWait(inp) =>
              (/\ out.first.threw /\ ~out.first.read /\ out.first.clicks = 0
               /\ out.first.needed = NotCalled.needed)

\* a call that read the count after a wait on the element it reads
C31_Witness ==
    /\ pc = "paginated" /\ inp.waitSees = "same"
    /\ out.first.read /\ HasOf(inp.text) /\ out.first.needed.n >= 1

\* a call whose wait timed out on a text without 'of'
C31_WitnessTimeout ==
    /\ pc = "paginated" /\ inp.waitSees = "same" /\ inp.readEl
    /\ ~HasOf(inp.text) /\ out.first.threw /\ ~out.first.read


-----------------------------------------------------------------------------
(* Properties of the resolver on an empty path (SpecQuery) *)
-----------------------------------------------------------------------------
\* C32: with an empty path the resolver evaluates one selector, the terminal
\* one, in the shadow tree of the starting element, and returns the element
\* it matches there, or not-found when nothing matches or the starting
\* element has no shadow tree.
C32_EmptyPath ==
    (pc = "queried" /\ inp.path = <<>>) =>
        LET dom == ChainDom(inp.shape)
        IN  /\ out.evals = <<inp.finalSelector>>
            /\ out.handle =
                  (IF "h1" \in DOMAIN dom /\ inp.finalSelector \in DOMAIN dom["h1"]
                   THEN dom["h1"][inp.finalSelector] ELSE NULL)
            /\ out.handle # "h1"

\* an empty path and a terminal selector that matches in the starting element
C32_Witness ==
    /\ pc = "queried" /\ inp.path = <<>>
    /\ inp.finalSelector = B /\ inp.shape["h1"] = "ab" /\ out.handle = "leafB"

\* an empty path and a starting element whose shadow tree has no match
C32_WitnessMiss ==
    /\ pc = "queried" /\ inp.path = <<>>
    /\ inp.finalSelector = B /\ inp.shape["h1"] = "a" /\ out.handle = NULL


\* C33: a request makes at most one downstream call, and makes one only
\* for an INSERT on 'objects' whose record is in 'gis-uploads'; the body
\* sent is that record's bucket and path and nothing else.
C33_ForwardOnceOnlyUploads ==
    pc = "answered" =>
        /\ Len(out.fetches) <= 1
        /\ out.fetches # <<>> =>
              /\ UploadNotice /\ inp.rq.bucket_id = GIS_UPLOADS
              /\ out.fetches[1].bucket = inp.rq.bucket_id
              /\ inp.rq.name # UNSET =>
                    out.fetches[1] = [bucket |-> inp.rq.bucket_id, path |-> inp.rq.name]
              /\ inp.rq.name = UNSET => DOMAIN out.fetches[1] = {"bucket"}

\* an upload to 'gis-uploads' was forwarded once, though the endpoint failed
C33_Witness ==
    /\ pc = "answered" /\ inp.net = "reject"
    /\ out.fetches = << [bucket |-> GIS_UPLOADS, path |-> "b.zip"] >>


C38_WitnessNotJson ==
    /\ pc = "answered" /\ inp.rq.json = "invalid"
    /\ out.answer = Rejected("SyntaxError") /\ out.response.status = 500


-----------------------------------------------------------------------------
(* The placeholder of an empty input (SpecDetails) *)
-----------------------------------------------------------------------------
\* the call returned from the primary strategy: no fallback query was made
ReturnedByPrimary ==
    /\ pc = "scraped" /\ out.res.kind = "url"
    /\ Positions(out.calls, "queryFallback") = {}

\* C34: a URL returned by the primary strategy is the value of one of the
\* enumerated inputs, and never the 'VALUE NOT FOUND' placeholder that
\* stands for an empty value, whatever the match token.
C34_PlaceholderNeverReturned ==
    ReturnedByPrimary =>
        /\ out.res.val # VALUE_NOT_FOUND
        /\ \E i \in 1..Len(inp.inputs) : inp.inputs[i] # <<>> /\ out.res.val = inp.inputs[i]

\* the same for a token the placeholder does not contain
RealValueWhenTokenNotInPlaceholder ==
    (ReturnedByPrimary /\ ~Includes(VALUE_NOT_FOUND, inp.token)) =>
        /\ out.res.val # VALUE_NOT_FOUND
        /\ \E i \in 1..Len(inp.inputs) : inp.inputs[i] # <<>> /\ out.res.val = inp.inputs[i]

\* a real value returned although an empty input came first
RealValueReached ==
    /\ ReturnedByPrimary /\ inp.token = GeoJson
    /\ Len(inp.inputs) = 2 /\ inp.inputs[1] = <<>>
    /\ out.res.val = inp.inputs[2]


-----------------------------------------------------------------------------
(* Termination of the pagination loop (SpecDegenerate) *)
-----------------------------------------------------------------------------
\* resultsPerPage as the call reads it from '<a> - <b> of <c>'
ReadPageSize == inp.b - inp.a + 1

\* C35: for every count text '<a> - <b> of <c>' the call ends after a finite
\* number of activations, zero or more: the loop's own bound stops it, also
\* when the control is resolvable at every iteration, and also for a reading
\* with pageSize zero or negative or with a total of 0.
C35_LoopTerminates ==
    pc = "paginated" =>
        /\ ~out.diverged
        /\ out.clicks >= 0

\* the same for the readings other than pageSize 0 with a positive total:
\* the call ends after at most max(ceil(c / pageSize) - 1, 0) activations,
\* none at all for a negative pageSize and for 0 / 0
TerminatesUnlessZeroPageSize ==
    (pc = "paginated" /\ (ReadPageSize # 0 \/ inp.c = 0)) =>
        /\ ~out.diverged /\ ~out.needed.inf
        /\ out.clicks >= 0 /\ out.clicks < MaxClicks
        /\ ReadPageSize > 0 => out.clicks <= (IF out.needed.n > 0 THEN out.needed.n ELSE 0)
        /\ ReadPageSize <= 0 => out.clicks = 0

\* a negative pageSize on a page whose control never goes away: no activation
NegativePageSizeReached ==
    /\ pc = "paginated" /\ inp.endless /\ inp.stuck = {}
    /\ ReadPageSize < 0 /\ inp.c > 0 /\ out.read /\ out.clicks = 0 /\ ~out.diverged

\* pageSize 0 with a positive total on such a page: the loop is still going
\* after MaxClicks activations
ZeroPageSizeDiverges ==
    /\ pc = "paginated" /\ inp.endless /\ inp.stuck = {}
    /\ ReadPageSize = 0 /\ inp.c > 0 /\ out.needed.inf /\ out.diverged


-----------------------------------------------------------------------------
(* What the wait watched and what the read finds (SpecLoad) *)
-----------------------------------------------------------------------------
\* C36: the text the call reads through the container handle contains 'of',
\* and a call whose wait completed finds the count element through the
\* handle: wait and read see the same element in the same state.
C36_ReadSeesWhatWaitSaw ==
    pc = "paginated" =>
        /\ out.first.read => HasOf(inp.text)
        /\ ~out.first.threw => out.first.read

\* the same when the wait watched the element, and the text, that the read
\* finds afterwards
ReadSeesWhatWaitSawOnSamePage ==
    (pc = "paginated" /\ inp.waitSees = "same") =>
        /\ out.first.read => HasOf(inp.text)
        /\ ~out.first.threw => out.first.read

ReadOnSamePageReached ==
    /\ pc = "paginated" /\ inp.waitSees = "same"
    /\ out.first.read /\ HasOf(inp.text) /\ out.first.clicks >= 1

\* the wait completed on a text with 'of'; the read found a text without it
\* and the call made no activation
ReadWithoutOfReached ==
    /\ pc = "paginated" /\ inp.waitSees = "hydrated"
    /\ out.first.read /\ ~HasOf(inp.text) /\ out.first.clicks = 0


\* C37: in a run that started from a file in which every imported dataset
\* has a non-empty scraped_url, every dataset marked imported has a non-empty
\* scraped_url at every point: the writer is called with a non-empty URL only.
C37_ImportedHasUrl ==
    \A k \in DOMAIN Records(out.file) :
        LET dataset == Records(out.file)[k]
        IN  dataset.imported => dataset.scraped_url # <<>>

\* the run is over: one dataset was imported by it, and one for which
\* Stage 2 returned the empty string was left as it was
C37_Witness ==
    /\ pc = "done" /\ UniqueIds
    /\ \E k \in out.completed : inp.kinds[k] = "fresh" /\ Kept(k)
    /\ \E j \in out.declined :
          Records(out.file)[j] = SavedDataset(inp.ids[j], "fresh")

====
